---- MODULE Spec2Model ----
(***************************************************************************)
(* Continuous AI Reviewer: the issue location resolver                     *)
(* (DecorationManager.findCurrentLine), the two presentation surfaces      *)
(* (DecorationManager, DiagnosticManager) and the dismissal state they     *)
(* keep, as wired together by extension.ts.                                *)
(*                                                                         *)
(* Strings are sequences of one-character strings, so that trim, split,    *)
(* template literals and parseInt are computed as the code computes them.  *)
(***************************************************************************)
EXTENDS Integers, Sequences, FiniteSets, Bags, TLC

VARIABLES
    \* ---- Location Resolver harness (SpecResolve) ----
    rIssue,        \* the Issue handed to findCurrentLine
    fileContent,   \* editor.document.getText()
    location,      \* the value findCurrentLine returned last (NotCalled before)
    \* ---- the editor host ----
    documents,           \* file name -> the text of its document
    visibleEditors,      \* vscode.window.visibleTextEditors, by file name
    decorations,         \* file name -> the decorations set on its editor
    globalState,         \* context.globalState "dismissedIssues": string[]
    lastDismiss,         \* the dismissal command that ran last: dismissIssue
                         \* (its key, how often in a row) or
                         \* clearDismissedIssues (how many keys it restored)
    \* ---- DecorationManager ----
    decIssuesByFile,     \* issuesByFile: fsPath -> Issue[]
    decDismissedIssues,  \* dismissedIssues: Set<string>
    \* ---- DiagnosticManager ----
    diagIssuesByFile,    \* issuesByFile: fsPath -> Issue[]
    diagDismissedIssues, \* dismissedIssues: Set<string>
    diagnosticCollection, \* fsPath -> Diagnostic[] (<<>>: no entry)
    \* ---- the host's storage and messages ----
    pendingWrites,       \* the arrays of the globalState.update calls whose
                         \* promise has not settled yet, oldest first
    warnings,            \* the texts shown with showWarningMessage or
                         \* showErrorMessage
    \* ---- GitWatcher and Agent ----
    gitHead,             \* what `git rev-parse HEAD` prints in the workspace
    lastHeadHash,        \* GitWatcher.lastHeadHash
    polling,             \* GitWatcher.pollingInterval is set
    initialLookup,       \* initialize()'s getCurrentHeadHash is under way
    disposed,            \* GitWatcher.dispose() has been called
    polls,               \* the bag of checkForNewCommit calls under way:
                         \* where each one is, and its two hashes
    agentCalls,          \* the Agent.processChanges calls the last step of
                         \* the watcher made, with their arguments
    reviewInProgress,    \* Agent.reviewInProgress
    reviewFile,          \* the text of review/review.md
    \* ---- providers/copilotExtensionProvider.ts ----
    copilot,             \* CopilotExtensionProvider: the Copilot extension it
                         \* found and what generateReview returned
    statusBar            \* StatusBarManager: its fields, the status bar item
                         \* and the timers it has set

(***************************************************************************)
(* Strings                                                                 *)
(***************************************************************************)
NL == "\n"

\* String.prototype.trim() strips these from both ends
WhiteSpace == {" ", "\t", "\r", NL}

RECURSIVE TrimStart(_)
TrimStart(s) ==
    IF s = <<>> THEN <<>>
    ELSE IF Head(s) \in WhiteSpace THEN TrimStart(Tail(s)) ELSE s

RECURSIVE TrimEnd(_)
TrimEnd(s) ==
    IF s = <<>> THEN <<>>
    ELSE IF s[Len(s)] \in WhiteSpace THEN TrimEnd(SubSeq(s, 1, Len(s) - 1)) ELSE s

\* s.trim()
Trim(s) == TrimEnd(TrimStart(s))

\* s.split(sep) for a one-character separator: "" splits to [""]
RECURSIVE SplitFrom(_, _, _)
SplitFrom(s, sep, cur) ==
    IF s = <<>> THEN <<cur>>
    ELSE IF Head(s) = sep THEN <<cur>> \o SplitFrom(Tail(s), sep, <<>>)
    ELSE SplitFrom(Tail(s), sep, Append(cur, Head(s)))

\* a mutant of Split: the empty string splits to no line at all
SplitEmptyToNothing(s, sep) ==
    IF s = <<>> THEN <<>> ELSE SplitFrom(s, sep, <<>>)

Split(s, sep) == SplitFrom(s, sep, <<>>)

\* lines.join("\n"): how a document's text is made of its lines
RECURSIVE JoinLines(_)
JoinLines(ls) ==
    IF ls = <<>> THEN <<>>
    ELSE IF Len(ls) = 1 THEN ls[1]
    ELSE ls[1] \o <<NL>> \o JoinLines(Tail(ls))

(***************************************************************************)
(* Issue (agent.ts).  An optional field that is not set holds a sentinel.  *)
(***************************************************************************)
\* issue.line is undefined; the code itself folds undefined and 0 together
\* (issue.line || 0, !issue.line)
NoLine == 0

\* issue.lineContent is undefined
Absent == <<"undefined">>

\* issue.filename is undefined (the parsed JSON had no such field)
NoFilename == Absent

\* issue.id is undefined
NoId == 0 - 2

\* if (issue.lineContent): undefined and "" are both falsy
HasLineContent(issue) == issue.lineContent # Absent /\ issue.lineContent # <<>>

(***************************************************************************)
(* DecorationManager.findCurrentLine                                       *)
(***************************************************************************)
\* the return value null
Null == [currentLine |-> NoLine, confidence |-> "null"]

\* findCurrentLine has not run yet
NotCalled == [currentLine |-> NoLine, confidence |-> "not called"]

\* the nearby search covers offsets -NearbyWindow .. NearbyWindow
NearbyWindow == 10

\* a mutant of LineMatches: the 1-based line number is used as the array index
LineMatchesOffByOne(lines, i, originalLineContent) ==
    /\ i + 1 >= 1
    /\ i + 1 <= Len(lines)
    /\ Trim(lines[i + 1]) = originalLineContent

\* lines[i - 1]?.trim() === originalLineContent
\* (undefined, for an index outside the array, equals no string)
LineMatches(lines, i, originalLineContent) ==
    /\ i >= 1
    /\ i <= Len(lines)
    /\ Trim(lines[i]) = originalLineContent

\* a mutant of NearbySearch: the nearby search is left out
NearbySearchNone(lines, line, originalLineContent, offset) == NoLine

\* a mutant of NearbySearch: the offsets are scanned from +10 down to -10
RECURSIVE NearbySearchDescending(_, _, _, _)
NearbySearchDescending(lines, line, originalLineContent, offset) ==
    IF 0 - offset < 0 - NearbyWindow THEN NoLine
    ELSE IF offset = 0
        THEN NearbySearchDescending(lines, line, originalLineContent, offset + 1)
    ELSE IF line - offset < 1 \/ line - offset > Len(lines)
        THEN NearbySearchDescending(lines, line, originalLineContent, offset + 1)
    ELSE IF Trim(lines[line - offset]) = originalLineContent
        THEN line - offset
    ELSE NearbySearchDescending(lines, line, originalLineContent, offset + 1)

\* for (let offset = -10; offset <= 10; offset++): the first hit, from offset on
RECURSIVE NearbySearch(_, _, _, _)
NearbySearch(lines, line, originalLineContent, offset) ==
    IF offset > NearbyWindow THEN NoLine
    ELSE IF offset = 0
        THEN NearbySearch(lines, line, originalLineContent, offset + 1)
    ELSE IF line + offset < 1 \/ line + offset > Len(lines)
        THEN NearbySearch(lines, line, originalLineContent, offset + 1)
    ELSE IF LineMatches(lines, line + offset, originalLineContent)
        THEN line + offset
    ELSE NearbySearch(lines, line, originalLineContent, offset + 1)

\* a mutant of FullSearch: the full file search is left out
FullSearchNone(lines, originalLineContent, i) == NoLine

\* a mutant of FullSearch: the file is scanned from its last line up
RECURSIVE FullSearchBackwards(_, _, _)
FullSearchBackwards(lines, originalLineContent, i) ==
    IF i > Len(lines) THEN NoLine
    ELSE IF Trim(lines[Len(lines) + 1 - i]) = originalLineContent
        THEN Len(lines) + 1 - i
    ELSE FullSearchBackwards(lines, originalLineContent, i + 1)

\* a mutant of FullSearch: the array index of the hit is returned as it is
RECURSIVE FullSearchZeroBased(_, _, _)
FullSearchZeroBased(lines, originalLineContent, i) ==
    IF i > Len(lines) THEN NoLine
    ELSE IF Trim(lines[i]) = originalLineContent THEN i - 1
    ELSE FullSearchZeroBased(lines, originalLineContent, i + 1)

\* for (let i = 0; i < lines.length; i++): the first hit, from 1-based line i on
RECURSIVE FullSearch(_, _, _)
FullSearch(lines, originalLineContent, i) ==
    IF i > Len(lines) THEN NoLine
    ELSE IF Trim(lines[i]) = originalLineContent THEN i
    ELSE FullSearch(lines, originalLineContent, i + 1)

\* a mutant of InBounds: the upper bound is not checked
InBoundsNoUpper(issue, lines) == issue.line > 0

\* issue.line > 0 && issue.line <= lines.length
InBounds(issue, lines) == issue.line > 0 /\ issue.line <= Len(lines)

\* a mutant of LineNumberOnly: the unchecked line number is reported as exact
LineNumberOnlyExact(issue, lines) ==
    IF InBounds(issue, lines)
      THEN [currentLine |-> issue.line, confidence |-> "exact"]
      ELSE [currentLine |-> issue.line, confidence |-> "stale"]

\* the else branch: no line content stored, just use the line number
LineNumberOnly(issue, lines) ==
    IF InBounds(issue, lines)
      THEN [currentLine |-> issue.line, confidence |-> "approximate"]
      ELSE [currentLine |-> issue.line, confidence |-> "stale"]

findCurrentLine(issue, text) ==
    IF issue.line = NoLine THEN Null
    ELSE
      LET lines == Split(text, NL)
      IN  IF HasLineContent(issue)
          THEN LET originalLineContent == Trim(issue.lineContent)
                   near == NearbySearch(lines, issue.line, originalLineContent,
                                        0 - NearbyWindow)
                   full == FullSearch(lines, originalLineContent, 1)
               IN  IF LineMatches(lines, issue.line, originalLineContent)
                     THEN [currentLine |-> issue.line, confidence |-> "exact"]
                   ELSE IF near # NoLine
                     THEN [currentLine |-> near, confidence |-> "approximate"]
                   ELSE IF full # NoLine
                     THEN [currentLine |-> full, confidence |-> "approximate"]
                   ELSE [currentLine |-> issue.line, confidence |-> "stale"]
          ELSE LineNumberOnly(issue, lines)

(***************************************************************************)
(* Numbers in strings: template literals and parseInt                      *)
(***************************************************************************)
Digits == <<"0", "1", "2", "3", "4", "5", "6", "7", "8", "9">>

\* parseInt found no digit
NaN == 0 - 1

\* `${n}` for a number, or for undefined
RECURSIVE NumToStr(_)
NumToStr(n) ==
    IF n = NaN THEN <<"N", "a", "N">>
    ELSE IF n = NoId THEN Absent
    ELSE IF n < 10 THEN <<Digits[n + 1]>>
    ELSE NumToStr(n \div 10) \o <<Digits[(n % 10) + 1]>>

DigitValue(c) == CHOOSE d \in 0..9 : Digits[d + 1] = c

IsDigit(c) == \E d \in 1..10 : Digits[d] = c

\* the value of the leading digits of s, after the digits read so far (acc)
RECURSIVE ParseDigits(_, _, _)
ParseDigits(s, acc, any) ==
    IF s # <<>> /\ IsDigit(Head(s))
      THEN ParseDigits(Tail(s), (IF any THEN acc * 10 ELSE 0) + DigitValue(Head(s)), TRUE)
      ELSE IF any THEN acc ELSE NaN

\* parseInt(s, 10) of an unsigned number: leading white space is skipped
ParseInt(s) == ParseDigits(TrimStart(s), 0, FALSE)

(***************************************************************************)
(* Paths                                                                   *)
(***************************************************************************)
PathSep == "/"
WorkspaceRoot == <<"/", "w">>

\* path.join(this.workspaceRoot, issue.filename)
PathJoin(root, filename) == root \o <<PathSep>> \o filename

\* document.uri.fsPath.replace(this.workspaceRoot, "") and the leading
\* separator sliced off, for a document under the workspace root
CleanFilename(fsPath) ==
    LET filename ==
          IF Len(fsPath) >= Len(WorkspaceRoot)
               /\ SubSeq(fsPath, 1, Len(WorkspaceRoot)) = WorkspaceRoot
            THEN SubSeq(fsPath, Len(WorkspaceRoot) + 1, Len(fsPath))
            ELSE fsPath
    IN  IF filename # <<>> /\ Head(filename) = PathSep
          THEN Tail(filename) ELSE filename

(***************************************************************************)
(* The issues a review can hold                                            *)
(***************************************************************************)
FileA == <<"a", ".", "t", "s">>
FileB == <<"b", ".", "t", "s">>
FileNames == {FileA, FileB}
FsPaths == {PathJoin(WorkspaceRoot, f) : f \in FileNames}

\* revision hashes (ten characters, shown cut to seven)
CommitOne == <<"c", "0", "f", "f", "e", "e", "1", "2", "3", "4">>

\* issue.reviewCommit is undefined
NoCommit == <<>>

IssueA1 ==
    [id |-> 1, severity |-> "high", filename |-> FileA, line |-> 1,
     title |-> <<"T">>, comments |-> <<"m">>, category |-> <<"c">>,
     suggestion |-> <<>>, lineContent |-> <<"x">>, reviewCommit |-> NoCommit]

\* the same file and id under another title, with no category
IssueA1Retitled ==
    [IssueA1 EXCEPT !.title = <<"U">>, !.category = <<>>,
                    !.severity = "low"]

IssueB2 ==
    [id |-> 2, severity |-> "medium", filename |-> FileB, line |-> 1,
     title |-> <<"T">>, comments |-> <<"m">>, category |-> <<>>,
     suggestion |-> <<>>, lineContent |-> <<"x">>, reviewCommit |-> NoCommit]

\* the same file, id and title without a line (file-scoped) and without
\* lineContent
IssueB2FileScoped ==
    [IssueB2 EXCEPT !.line = NoLine, !.lineContent = Absent,
                    !.severity = "low"]

IssuePool == {IssueA1, IssueA1Retitled, IssueB2, IssueB2FileScoped}

\* the revision an issue names itself, other than the reviewed one
CommitTwo == <<"d", "e", "c", "a", "f", "0", "0", "0", "0", "0">>

\* a second issue of a.ts, of high severity, that names its own revision
IssueA2 ==
    [IssueB2 EXCEPT !.filename = FileA, !.severity = "high",
                    !.reviewCommit = CommitTwo]

\* malformed issues: the parsed JSON lacks "filename", or lacks "id"
IssueNoFilename ==
    [IssueA1 EXCEPT !.id = 3, !.filename = NoFilename]

IssueNoId ==
    [IssueB2 EXCEPT !.id = NoId, !.severity = "low"]

\* what a parsed model response can hold besides well-formed issues in
\* the order the contract asks for
IngestPool ==
    {IssueA1Retitled, IssueA2, IssueB2, IssueNoFilename, IssueNoId}

\* the same dismissIssue command runs at most MaxDismissCalls times in a row
MaxDismissCalls == 2

\* at most MaxPendingWrites globalState.update promises are unsettled
MaxPendingWrites == 3

\* a review holds at most MaxReviewIssues issues
MaxReviewIssues == 2

\* ReviewResponse.issues: the ids are unique within one review and ascend
\* ("id": <unique number starting from 1>)
Reviews ==
    LET sequences ==
          {s : s \in UNION {[1..n -> IssuePool] : n \in 0..MaxReviewIssues}}
    IN  {r \in sequences :
            \A i \in 1..Len(r), j \in 1..Len(r) : i < j => r[i].id < r[j].id}

\* ReviewResponse.issues as JSON.parse returns them: any order, the ids
\* that are present unique
IngestReviews ==
    LET sequences ==
          {s : s \in UNION {[1..n -> IngestPool] : n \in 0..MaxReviewIssues}}
    IN  {r \in sequences :
            \A i \in 1..Len(r), j \in 1..Len(r) : i < j => r[i].id # r[j].id}

\* the texts a document can hold: the issue's line in place, moved, gone
DocTexts == {<<"x">>, <<"y", NL, "x">>, <<"y">>}

\* the files whose text changes while the extension runs
EditedFiles == {FileA}

(***************************************************************************)
(* DecorationManager                                                       *)
(***************************************************************************)
\* getIssueKey: `${issue.filename}:${issue.id}:${issue.title}`
getIssueKey(issue) ==
    issue.filename \o <<":">> \o NumToStr(issue.id) \o <<":">> \o issue.title

\* a mutant of dismissedIssuesAdd: a key that is present is taken out
dismissedIssuesToggle(dismissed, key) ==
    IF key \in dismissed THEN dismissed \ {key} ELSE dismissed \cup {key}

\* this.dismissedIssues.add(key)
dismissedIssuesAdd(dismissed, key) == dismissed \cup {key}

\* Array.from(set): every element once
RECURSIVE ArrayFrom(_)
ArrayFrom(set) ==
    IF set = {} THEN <<>>
    ELSE LET x == CHOOSE y \in set : TRUE
         IN  <<x>> \o ArrayFrom(set \ {x})

\* a mutant of saveDismissedIssues: the array written is empty
saveDismissedIssuesNothing(dismissed) == <<>>

\* saveDismissedIssues: the array written under "dismissedIssues"
saveDismissedIssues(dismissed) == ArrayFrom(dismissed)

\* a mutant of loadDismissedIssues: the stored array is not read
loadDismissedIssuesNothing(stored) == {}

\* loadDismissedIssues: new Set(stored)
loadDismissedIssues(stored) == {stored[i] : i \in 1..Len(stored)}

\* DecorationManager.isIssueDismissed
decIsIssueDismissed(issue, dismissed) == getIssueKey(issue) \in dismissed

\* issuesByFile.get(filePath) after the indexing loop: the issues whose
\* path.join(workspaceRoot, issue.filename) is filePath, in review order
RECURSIVE IssuesOfFile(_, _)
IssuesOfFile(issues, filePath) ==
    IF issues = <<>> THEN <<>>
    ELSE IF PathJoin(WorkspaceRoot, Head(issues).filename) = filePath
      THEN <<Head(issues)>> \o IssuesOfFile(Tail(issues), filePath)
      ELSE IssuesOfFile(Tail(issues), filePath)

IndexByFile(issues) == [fp \in FsPaths |-> IssuesOfFile(issues, fp)]

\* a mutant of DecorationsOfIssue: only an exact location is decorated
DecorationsOfIssueExactOnly(issue, dismissed, text) ==
    IF decIsIssueDismissed(issue, dismissed) THEN <<>>
    ELSE LET loc == findCurrentLine(issue, text)
         IN  IF loc.confidence # "exact" THEN <<>>
             ELSE <<[issue |-> issue, line |-> loc.currentLine - 1,
                     confidence |-> loc.confidence]>>

\* the loop body of applyDecorationsToEditor for one issue: the decoration
\* pushed for it, or none
DecorationsOfIssue(issue, dismissed, text) ==
    IF decIsIssueDismissed(issue, dismissed) THEN <<>>
    ELSE LET loc == findCurrentLine(issue, text)
             lineNumber == loc.currentLine - 1
         IN  IF loc = Null \/ loc.confidence = "stale" THEN <<>>
             ELSE IF lineNumber < 0 \/ lineNumber >= Len(Split(text, NL))
               THEN <<>>
             ELSE <<[issue |-> issue, line |-> lineNumber,
                     confidence |-> loc.confidence]>>

RECURSIVE DecorationsOf(_, _, _)
DecorationsOf(issues, dismissed, text) ==
    IF issues = <<>> THEN <<>>
    ELSE DecorationsOfIssue(Head(issues), dismissed, text)
           \o DecorationsOf(Tail(issues), dismissed, text)

\* applyDecorationsToEditor(editor): what the editor of file f shows after it
applyDecorationsToEditor(f, shown, issuesByFile, dismissed) ==
    LET issues == issuesByFile[PathJoin(WorkspaceRoot, f)]
    IN  IF issues = <<>> THEN shown
        ELSE DecorationsOf(issues, dismissed, documents[f])

\* vscode.window.visibleTextEditors.forEach(applyDecorationsToEditor)
ApplyToVisibleEditors(shown, issuesByFile, dismissed) ==
    [f \in FileNames |->
        IF f \in visibleEditors
          THEN applyDecorationsToEditor(f, shown[f], issuesByFile, dismissed)
          ELSE shown[f]]

\* a mutant of clearDecorations: the decorations are left in place
clearDecorationsNothing(shown) == shown

\* clearDecorations: every decoration type of every visible editor is emptied
clearDecorations(shown) ==
    [f \in FileNames |-> IF f \in visibleEditors THEN <<>> ELSE shown[f]]

\* path.join(this.workspaceRoot, issue.filename) throws a TypeError when
\* the filename is not a string
PathJoinThrows(issue) == issue.filename = NoFilename

\* the issues the indexing loop of updateReview gets through: all of them,
\* or those before the first one whose path.join throws
RECURSIVE IndexedBeforeThrow(_)
IndexedBeforeThrow(issues) ==
    IF issues = <<>> \/ PathJoinThrows(Head(issues)) THEN <<>>
    ELSE <<Head(issues)>> \o IndexedBeforeThrow(Tail(issues))

\* a mutant of BackfillCommit: every issue gets the reviewed revision
RECURSIVE BackfillCommitAlways(_, _)
BackfillCommitAlways(issues, reviewCommit) ==
    IF issues = <<>> THEN <<>>
    ELSE <<[Head(issues) EXCEPT !.reviewCommit = reviewCommit]>>
           \o BackfillCommitAlways(Tail(issues), reviewCommit)

\* if (!issue.reviewCommit) issue.reviewCommit = reviewCommit
RECURSIVE BackfillCommit(_, _)
BackfillCommit(issues, reviewCommit) ==
    IF issues = <<>> THEN <<>>
    ELSE <<IF Head(issues).reviewCommit = NoCommit
             THEN [Head(issues) EXCEPT !.reviewCommit = reviewCommit]
             ELSE Head(issues)>>
           \o BackfillCommit(Tail(issues), reviewCommit)

(***************************************************************************)
(* DiagnosticManager                                                       *)
(***************************************************************************)
\* buildDiagnosticMessage
buildDiagnosticMessage(issue) ==
    issue.title
      \o (IF issue.category # <<>>
            THEN <<" ", "(">> \o issue.category \o <<")">> ELSE <<>>)
      \o (IF issue.comments # <<>> THEN <<NL>> \o issue.comments ELSE <<>>)
      \o (IF issue.suggestion # <<>>
            THEN <<NL, "S", ":", " ">> \o issue.suggestion ELSE <<>>)

CodePrefix == <<"C", "A", "R", "-">>

\* a mutant of createDiagnostic: an undefined line is not defaulted to 1
createDiagnosticNoDefault(issue) ==
    [issue |-> issue,
     line |-> issue.line - 1,
     message |-> buildDiagnosticMessage(issue),
     severity |-> issue.severity,
     code |-> CodePrefix \o NumToStr(issue.id)]

\* createDiagnostic; the field issue records which issue it was made for
createDiagnostic(issue) ==
    [issue |-> issue,
     line |-> (IF issue.line = NoLine THEN 1 ELSE issue.line) - 1,
     message |-> buildDiagnosticMessage(issue),
     severity |-> issue.severity,
     code |-> CodePrefix \o NumToStr(issue.id)]

\* DiagnosticManager.isIssueDismissed: the key is `${filename}:${id}`
diagIsIssueDismissed(issue, dismissed) ==
    (issue.filename \o <<":">> \o NumToStr(issue.id)) \in dismissed

\* the diagnostics of one file: one for every issue that is not dismissed
RECURSIVE DiagnosticsOf(_, _)
DiagnosticsOf(issues, dismissed) ==
    IF issues = <<>> THEN <<>>
    ELSE (IF diagIsIssueDismissed(Head(issues), dismissed) THEN <<>>
          ELSE <<createDiagnostic(Head(issues))>>)
           \o DiagnosticsOf(Tail(issues), dismissed)

\* issues.find((i) => i.id === issueId): <<the issue>>, or <<>> for undefined
RECURSIVE FindById(_, _)
FindById(issues, issueId) ==
    IF issues = <<>> THEN <<>>
    ELSE IF Head(issues).id = issueId THEN <<Head(issues)>>
    ELSE FindById(Tail(issues), issueId)

\* a mutant of SyncedDecorationKeys: the decoration manager is not notified
SyncedDecorationKeysNone(filePath, issueId) == {}

\* DiagnosticManager.dismissIssue, its last part: the key it hands to
\* decorationManager.dismissIssue (none when the issue is not found)
SyncedDecorationKeys(filePath, issueId) ==
    IF filePath \notin FsPaths \/ diagIssuesByFile[filePath] = <<>> THEN {}
    ELSE LET found == FindById(diagIssuesByFile[filePath], issueId)
         IN  IF found = <<>> THEN {} ELSE {getIssueKey(found[1])}

(***************************************************************************)
(* The extension's handlers                                                *)
(***************************************************************************)
hostVars == <<documents, visibleEditors>>
decVars == <<decIssuesByFile, decDismissedIssues>>
diagVars == <<diagIssuesByFile, diagDismissedIssues, diagnosticCollection>>
resolverVars == <<rIssue, fileContent, location>>
providerVars == <<copilot, statusBar>>
storageVars == <<pendingWrites, warnings>>
watcherVars ==
    <<gitHead, lastHeadHash, polling, initialLookup, disposed, polls,
      agentCalls, reviewInProgress, reviewFile>>

NoIssues == [fp \in FsPaths |-> <<>>]

\* no dismissal command has run since the last other event
NoDismiss == [key |-> <<>>, calls |-> 0, restored |-> 0]
NoDecorations == [f \in FileNames |-> <<>>]

\* lastHeadHash is undefined; git rev-parse HEAD failed
NoHash == <<>>

\* review/review.md does not exist
NoReviewFile == <<>>

\* at most MaxPolls checkForNewCommit calls run at a time (a poll tick
\* comes every five seconds, a call lasts as long as its review)
MaxPolls == 2

\* no checkForNewCommit call is under way
NoPolls == EmptyBag

\* a checkForNewCommit call that awaits getCurrentHeadHash
StartedPoll ==
    [pc |-> "rev-parse", oldHash |-> NoHash, newHash |-> NoHash,
     files |-> <<>>]

\* the step made no Agent.processChanges call
NoCalls == <<>>

\* the resolver harness is idle while the extension runs
ResolverIdle ==
    /\ rIssue = [line |-> NoLine, lineContent |-> Absent]
    /\ fileContent = <<>>
    /\ location = NotCalled

(***************************************************************************)
(* CopilotExtensionProvider.generateReview                                 *)
(***************************************************************************)
\* what a property of the exported API can be: not a function, a function
\* that throws (or whose promise rejects), one that answers with something
\* that is no string; otherwise it answers with a string
NotAFunction == <<"not a function">>
Throws == <<"throws">>
ReturnsObject == <<"object">>

\* the names tried, in this order, and the request method tried last
candidateFns ==
    <<"generateReview", "provideReview", "requestReview", "review",
      "requestCopilotReview">>
ApiOrder == candidateFns \o <<"request">>

\* the review the i-th function answers with
ReviewOf(i) == <<"r">> \o NumToStr(i)

\* what a function of the API does: the three above, or it answers with
\* "", with blanks, or with its review
ReturnsReview == <<"review">>
ApiBehaviours ==
    {NotAFunction, Throws, ReturnsObject, <<>>, <<" ">>, ReturnsReview}

\* what calling the i-th function gives
Answer(api, i) == IF api[i] = ReturnsReview THEN ReviewOf(i) ELSE api[i]

\* the arguments of the generateReview calls, and what git diff prints
\* ("" when it fails)
ProviderFiles == <<FileA>>
ProviderOldHash == <<"h", "1">>
ProviderNewHash == <<"h", "2">>
ProviderDiffs == {<<>>, <<"d">>}

\* generateReview has not returned
NotGenerated == <<"not generated">>

\* no Copilot extension is installed
NoApi == [i \in 1..Len(ApiOrder) |-> NotAFunction]
NoCopilot ==
    [ext |-> "none", api |-> NoApi, diff |-> <<>>, result |-> NotGenerated]

\* `# Copilot (fallback) Review`
FallbackTitle ==
    <<"#", " ", "C", "o", "p", "i", "l", "o", "t", " ", "(", "f", "a",
      "l", "l", "b", "a", "c", "k", ")", " ", "R", "e", "v", "i", "e",
      "w">>

\* the prompt, its fixed words shortened: the commit range, the changed
\* files and the diff
Prompt(files, oldHash, newHash, diff) ==
    oldHash \o <<"-", ">">> \o newHash \o <<NL>>
      \o JoinLines([i \in 1..Len(files) |-> <<"-", " ">> \o files[i]])
      \o <<NL>> \o diff

\* return `# Copilot (fallback) Review\n\n${prompt}`
Fallback(prompt) == FallbackTitle \o <<NL, NL>> \o prompt

\* typeof fn === "function", fn did not throw, and
\* typeof result === "string"
IsString(result) == result \notin {NotAFunction, Throws, ReturnsObject}

\* ... && result.trim().length > 0
IsReview(result) == IsString(result) /\ Len(Trim(result)) > 0

\* a mutant of FirstReview: the loop goes on after a review and the last
\* one is returned
RECURSIVE LastReview(_, _)
LastReview(api, i) ==
    IF i > Len(ApiOrder) THEN NotGenerated
    ELSE IF IsReview(Answer(api, Len(ApiOrder) + 1 - i))
      THEN Answer(api, Len(ApiOrder) + 1 - i)
    ELSE LastReview(api, i + 1)

\* for (const name of candidateFns) and then api.request: the first review,
\* from the i-th function on
RECURSIVE FirstReview(_, _)
FirstReview(api, i) ==
    IF i > Len(ApiOrder) THEN NotGenerated
    ELSE IF IsReview(Answer(api, i)) THEN Answer(api, i)
    ELSE FirstReview(api, i + 1)

\* generateReview(files, oldHash, newHash) with the extension c.ext, whose
\* activate() rejects when it is "failing"
generateReview(c, files, oldHash, newHash) ==
    LET prompt == Prompt(files, oldHash, newHash, c.diff)
        review == FirstReview(c.api, 1)
    IN  IF c.ext = "active" /\ review # NotGenerated THEN review
        ELSE Fallback(prompt)

(***************************************************************************)
(* StatusBarManager                                                        *)
(***************************************************************************)
\* at most MaxTimers timers of a kind are pending at a time
MaxTimers == 2

\* private animationFrames: their number
AnimationFrames == 10

\* the state after the constructor: the item is created and not shown
StatusBarHidden ==
    [visible |-> FALSE, text |-> [kind |-> "none", n |-> 0],
     reviewInProgress |-> FALSE,
     animationInterval |-> FALSE, intervals |-> 0, currentFrame |-> 0,
     completeTimers |-> 0, errorTimers |-> 0]

\* neither component is in use
ProviderIdle ==
    /\ copilot = NoCopilot
    /\ statusBar = StatusBarHidden

\* the workspace is no git repository (git rev-parse HEAD fails): the
\* watcher polls and never sees a commit
WatcherIdle ==
    /\ gitHead = NoHash
    /\ lastHeadHash = NoHash
    /\ polling = TRUE
    /\ initialLookup = FALSE
    /\ disposed = FALSE
    /\ polls = NoPolls

\* the state after activate() on a fresh installation, no editor open
InitExtension ==
    /\ documents = [f \in FileNames |-> <<"x">>]
    /\ visibleEditors = {}
    /\ decorations = NoDecorations
    /\ globalState = <<>>
    /\ lastDismiss = NoDismiss
    /\ decIssuesByFile = NoIssues
    /\ decDismissedIssues = {}
    /\ diagIssuesByFile = NoIssues
    /\ diagDismissedIssues = {}
    /\ diagnosticCollection = NoIssues
    /\ pendingWrites = <<>>
    /\ warnings = {}
    /\ agentCalls = NoCalls
    /\ reviewInProgress = FALSE
    /\ reviewFile = NoReviewFile

Init == InitExtension /\ ResolverIdle /\ WatcherIdle /\ ProviderIdle

\* agent.setOnReviewCompleted callback: decorationManager.updateReview, then
\* diagnosticManager.updateDiagnostics on the same issue objects.  When
\* path.join throws in the indexing loop of updateReview, the exception
\* leaves the callback: the decorations are cleared, the index holds the
\* issues before the throw, no editor is decorated and updateDiagnostics
\* does not run
UpdateReviewAndDiagnostics(review, reviewCommit) ==
    LET indexed == IndexedBeforeThrow(review)
        thrown == Len(indexed) < Len(review)
        issues == BackfillCommit(indexed, reviewCommit)
        index == IndexByFile(issues)
    IN  /\ decIssuesByFile' = index
        /\ decorations' =
              IF thrown THEN clearDecorations(decorations)
              ELSE ApplyToVisibleEditors(clearDecorations(decorations),
                                         index, decDismissedIssues)
        /\ diagIssuesByFile' = IF thrown THEN diagIssuesByFile ELSE index
        /\ diagnosticCollection' =
              IF thrown THEN diagnosticCollection
              ELSE [fp \in FsPaths |->
                      DiagnosticsOf(index[fp], diagDismissedIssues)]
        /\ lastDismiss' = NoDismiss
        /\ UNCHANGED <<hostVars, globalState, decDismissedIssues,
                       diagDismissedIssues, resolverVars, providerVars, storageVars>>

\* the callback runs; the watcher and the Agent are where they were
ReviewCompleted(review, reviewCommit) ==
    /\ UpdateReviewAndDiagnostics(review, reviewCommit)
    /\ UNCHANGED watcherVars

\* the command continuous-ai-reviewer.dismissIssue(issueKey):
\* decorationManager.dismissIssue(issueKey), then, when the key has two
\* parts, diagnosticManager.dismissIssue(parts[0], parseInt(parts[1])),
\* which re-renders that file's diagnostics and dismisses the found issue's
\* own key at the decoration manager.  Every decorationManager.dismissIssue
\* calls globalState.update with the whole set as an array and does not
\* wait for the promise: the writes are settled (resolved) before the next
\* event, or stay pending
DismissIssue(issueKey, settled) ==
    LET parts == Split(issueKey, ":")
        twoParts == Len(parts) >= 2
        filename == parts[1]
        issueId == ParseInt(parts[2])
        filePath == PathJoin(WorkspaceRoot, filename)
        diagDismissed ==
            IF twoParts
              THEN dismissedIssuesAdd(diagDismissedIssues,
                       filename \o <<":">> \o NumToStr(issueId))
              ELSE diagDismissedIssues
        synced ==
            IF twoParts THEN SyncedDecorationKeys(filePath, issueId) ELSE {}
        added == dismissedIssuesAdd(decDismissedIssues, issueKey)
        decDismissed ==
            IF synced = {} THEN added
            ELSE dismissedIssuesAdd(added, CHOOSE key \in synced : TRUE)
        writes ==
            <<saveDismissedIssues(added)>>
              \o (IF synced = {} THEN <<>>
                  ELSE <<saveDismissedIssues(decDismissed)>>)
    IN  /\ decDismissedIssues' = decDismissed
        /\ IF settled
             THEN /\ globalState' = writes[Len(writes)]
                  /\ UNCHANGED pendingWrites
             ELSE /\ Len(pendingWrites) + Len(writes) <= MaxPendingWrites
                  /\ pendingWrites' = pendingWrites \o writes
                  /\ UNCHANGED globalState
        /\ decorations' = ApplyToVisibleEditors(decorations, decIssuesByFile,
                                                decDismissed)
        /\ diagDismissedIssues' = diagDismissed
        /\ diagnosticCollection' =
              IF twoParts /\ filePath \in FsPaths
                   /\ diagIssuesByFile[filePath] # <<>>
                THEN [diagnosticCollection EXCEPT ![filePath] =
                        DiagnosticsOf(diagIssuesByFile[filePath],
                                      diagDismissed)]
                ELSE diagnosticCollection
        /\ lastDismiss' =
              [key |-> issueKey,
               calls |-> IF lastDismiss.key = issueKey
                           THEN lastDismiss.calls + 1 ELSE 1,
               restored |-> 0]
        /\ UNCHANGED <<hostVars, decIssuesByFile, diagIssuesByFile,
                       resolverVars, providerVars, warnings, watcherVars>>

\* the command with its writes settled before the next event
DismissIssueCommand(issueKey) == DismissIssue(issueKey, TRUE)

\* createHoverMessage: the key in the command link of a decoration's hover,
\* JSON.stringify([this.getIssueKey(issue)])
HoverKey(decoration) == getIssueKey(decoration.issue)

\* the hover's "Mark as Fixed" link of the k-th decoration shown for file f
MarkAsFixedFromHover(f, k) ==
    /\ f \in visibleEditors
    /\ k \in 1..Len(decorations[f])
    /\ DismissIssueCommand(HoverKey(decorations[f][k]))

\* the key the Quick Fix of a diagnostic of document fsPath passes:
\* `${cleanFilename}:${issueId}:${diagnostic.message.split("\n")[0]}`,
\* issueId parsed from the code CAR-<id>
QuickFixKey(fsPath, diagnostic) ==
    CleanFilename(fsPath) \o <<":">>
      \o NumToStr(ParseInt(SubSeq(diagnostic.code, Len(CodePrefix) + 1,
                                  Len(diagnostic.code))))
      \o <<":">> \o Split(diagnostic.message, NL)[1]

\* the Quick Fix "Mark as Fixed" of the k-th diagnostic of document fp
MarkAsFixedFromQuickFix(fp, k) ==
    /\ k \in 1..Len(diagnosticCollection[fp])
    /\ DismissIssueCommand(QuickFixKey(fp, diagnosticCollection[fp][k]))

\* the same command link is activated once more, straight after its first
\* run (the hover that holds it is still open)
RepeatDismissIssue ==
    /\ lastDismiss.calls \in 1..(MaxDismissCalls - 1)
    /\ DismissIssueCommand(lastDismiss.key)

\* the command continuous-ai-reviewer.clearDismissedIssues:
\* decorationManager.clearDismissedIssues(), then
\* diagnosticManager.clearDismissedIssues(), which calls the decoration
\* manager's once more; each saves the empty set
ClearDismissedIssues(settled) ==
    /\ decDismissedIssues' = {}
    /\ IF settled
         THEN /\ globalState' = saveDismissedIssues({})
              /\ UNCHANGED pendingWrites
         ELSE /\ Len(pendingWrites) + 2 <= MaxPendingWrites
              /\ pendingWrites' =
                    pendingWrites
                      \o <<saveDismissedIssues({}), saveDismissedIssues({})>>
              /\ UNCHANGED globalState
    /\ lastDismiss' =
          [NoDismiss EXCEPT !.restored = Cardinality(decDismissedIssues)]
    /\ decorations' = ApplyToVisibleEditors(decorations, decIssuesByFile, {})
    /\ diagDismissedIssues' = {}
    /\ diagnosticCollection' =
          [fp \in FsPaths |-> DiagnosticsOf(diagIssuesByFile[fp], {})]
    /\ UNCHANGED <<hostVars, decIssuesByFile, diagIssuesByFile, resolverVars, providerVars,
                   warnings, watcherVars>>

\* a mutant of ClearDismissedIssuesCommand: the sets are emptied and no
\* surface is rendered again
ClearDismissedIssuesOnly ==
    /\ decDismissedIssues' = {}
    /\ globalState' = saveDismissedIssues({})
    /\ lastDismiss' =
          [NoDismiss EXCEPT !.restored = Cardinality(decDismissedIssues)]
    /\ diagDismissedIssues' = {}
    /\ UNCHANGED <<hostVars, decorations, diagnosticCollection,
                   decIssuesByFile, diagIssuesByFile, resolverVars, providerVars,
                   storageVars, watcherVars>>

\* the command with its writes settled before the next event
ClearDismissedIssuesCommand == ClearDismissedIssues(TRUE)

\* the promise of the oldest pending globalState.update settles: resolved,
\* the stored array is the one it was called with; rejected, nothing is
\* stored, and no handler is attached to the promise
SettleWrite(outcome) ==
    /\ pendingWrites # <<>>
    /\ pendingWrites' = Tail(pendingWrites)
    /\ globalState' =
          IF outcome = "resolved" THEN Head(pendingWrites) ELSE globalState
    /\ UNCHANGED <<hostVars, decorations, lastDismiss, decVars, diagVars,
                   resolverVars, providerVars, warnings, watcherVars>>

\* the command continuous-ai-reviewer.clearDecorations
ClearDecorationsCommand ==
    /\ decorations' = clearDecorations(decorations)
    /\ lastDismiss' = NoDismiss
    /\ UNCHANGED <<hostVars, globalState, decVars, diagVars, resolverVars, providerVars,
                   storageVars, watcherVars>>

\* onDidChangeActiveTextEditor(editor): the editor of file f is shown or
\* focused, and the decoration manager renders it
ChangeActiveTextEditor(f) ==
    /\ visibleEditors' = visibleEditors \cup {f}
    /\ decorations' =
          [decorations EXCEPT ![f] =
              applyDecorationsToEditor(f, decorations[f], decIssuesByFile,
                                       decDismissedIssues)]
    /\ lastDismiss' = NoDismiss
    /\ UNCHANGED <<documents, globalState, decVars, diagVars, resolverVars, providerVars,
                   storageVars, watcherVars>>

\* the editor of file f is closed: its decorations go with it
CloseEditor(f) ==
    /\ f \in visibleEditors
    /\ visibleEditors' = visibleEditors \ {f}
    /\ decorations' = [decorations EXCEPT ![f] = <<>>]
    /\ lastDismiss' = NoDismiss
    /\ UNCHANGED <<documents, globalState, decVars, diagVars, resolverVars, providerVars,
                   storageVars, watcherVars>>

\* a mutant of EditDocument: the edit makes the decoration manager render
\* the file's editor
EditDocumentAndRender(f, text) ==
    /\ text # documents[f]
    /\ documents' = [documents EXCEPT ![f] = text]
    /\ decorations' =
          [decorations EXCEPT ![f] =
              IF f \in visibleEditors
                THEN DecorationsOf(decIssuesByFile[PathJoin(WorkspaceRoot, f)],
                                   decDismissedIssues, text)
                ELSE decorations[f]]
    /\ lastDismiss' = NoDismiss
    /\ UNCHANGED <<visibleEditors, globalState, decVars, diagVars,
                   resolverVars, providerVars,
                   storageVars, watcherVars>>

\* the text of file f changes (typing, or a change on disk): no handler of
\* the extension listens to it
EditDocument(f, text) ==
    /\ text # documents[f]
    /\ documents' = [documents EXCEPT ![f] = text]
    /\ lastDismiss' = NoDismiss
    /\ UNCHANGED <<visibleEditors, decorations, globalState, decVars,
                   diagVars, resolverVars, providerVars,
                   storageVars, watcherVars>>

\* the window is reloaded: deactivate, then activate() builds new managers;
\* only globalState survives, and loadDismissedIssues reads it
Restart ==
    /\ decIssuesByFile' = NoIssues
    /\ decDismissedIssues' = loadDismissedIssues(globalState)
    /\ decorations' = NoDecorations
    /\ diagIssuesByFile' = NoIssues
    /\ diagDismissedIssues' = {}
    /\ diagnosticCollection' = NoIssues
    /\ lastDismiss' = NoDismiss
    /\ UNCHANGED <<hostVars, globalState, resolverVars, providerVars,
                   storageVars, watcherVars>>

Next ==
    \/ \E review \in Reviews : ReviewCompleted(review, CommitOne)
    \/ \E f \in FileNames : \E k \in 1..MaxReviewIssues :
          MarkAsFixedFromHover(f, k)
    \/ \E fp \in FsPaths : \E k \in 1..MaxReviewIssues :
          MarkAsFixedFromQuickFix(fp, k)
    \/ RepeatDismissIssue
    \/ ClearDismissedIssuesCommand
    \/ ClearDecorationsCommand
    \/ \E f \in FileNames : ChangeActiveTextEditor(f)
    \/ \E f \in FileNames : CloseEditor(f)
    \/ \E f \in EditedFiles : \E text \in DocTexts : EditDocument(f, text)
    \/ Restart

(***************************************************************************)
(* SpecIngest: the review callback on whatever a parsed response holds,    *)
(* between render passes and the clearDecorations command                  *)
(***************************************************************************)
\* Agent.generateReviewContent after JSON.parse:
\* reviewResponse.issues.forEach((issue) => { issue.reviewCommit = newHash })
StampReviewCommit(issues, newHash) ==
    [i \in 1..Len(issues) |-> [issues[i] EXCEPT !.reviewCommit = newHash]]

\* Agent.generateReviewContent from the parsed response on:
\* this.onReviewCompleted(reviewResponse, newHash) on the stamped issues
AgentReviewParsed(review, newHash) ==
    ReviewCompleted(StampReviewCommit(review, newHash), newHash)

NextIngest ==
    \/ \E review \in IngestReviews : ReviewCompleted(review, CommitOne)
    \/ \E review \in IngestReviews : AgentReviewParsed(review, CommitOne)
    \/ \E f \in FileNames : ChangeActiveTextEditor(f)
    \/ ClearDecorationsCommand

(***************************************************************************)
(* SpecWatch: GitWatcher polls a repository in which commits are made, and *)
(* hands each change of HEAD to the Agent                                  *)
(***************************************************************************)
\* the repository gets at most MaxCommits commits while it is watched
MaxCommits == 1

\* the hash of the n-th HEAD
HashOf(n) == <<"h">> \o NumToStr(n)

\* what `git diff --name-only old new` prints, or its failure
DiffFailed == <<"failed">>
DiffOutputs == {FileA \o <<NL>> \o FileB \o <<NL>>, DiffFailed}

NotBlank(line) == Len(Trim(line)) > 0

\* getChangedFiles: stdout.split("\n").filter((line) => line.trim().length
\* > 0), and [] when exec fails
getChangedFiles(output) ==
    IF output = DiffFailed THEN <<>>
    ELSE SelectSeq(Split(output, NL), NotBlank)

\* the reviews the language model answers with: one the callback ingests,
\* and one on which the callback throws (an issue without a filename)
WatchReviews == {<<IssueA1>>, <<IssueNoFilename>>}

extensionVars ==
    <<hostVars, decorations, globalState, lastDismiss, decVars, diagVars,
      storageVars, resolverVars, providerVars>>

\* content.includes(part)
Contains(content, part) ==
    \E i \in 0..(Len(content) - Len(part)) :
       SubSeq(content, i + 1, i + Len(part)) = part

\* files.map((f) => `- ${f}`).join("\n")
FileList(files) ==
    JoinLines([i \in 1..Len(files) |-> <<"-", " ">> \o files[i]])

\* the character the hashes are quoted with in the text (a backtick)
BQ == "'"

\* the text both generators start with, its fixed words shortened: the
\* heading (#), the quoted hashes of the commit range and the changed files,
\* their number in brackets (the timestamp is left out)
ReviewHead(files, oldHash, newHash) ==
    <<"#", NL>>
      \o <<BQ>> \o oldHash \o <<BQ, ">", BQ>> \o newHash \o <<BQ, NL>>
      \o <<"(">> \o NumToStr(Len(files)) \o <<")", NL>>
      \o FileList(files) \o <<NL>>

\* a mutant of generateStubReview: the changed files are not listed
generateStubReviewNoFiles(files, oldHash, newHash) ==
    ReviewHead(<<>>, oldHash, newHash) \o <<"s", "t", "u", "b", NL>>

\* generateStubReview: the head and the fixed text of the stub, shortened
generateStubReview(files, oldHash, newHash) ==
    ReviewHead(files, oldHash, newHash) \o <<"s", "t", "u", "b", NL>>

\* generateMarkdownFromIssues: the head, then "ok" for no issues or the
\* number of issues in brackets and the file of each (of an issue's block
\* only its File line is kept)
generateMarkdownFromIssues(issues, files, oldHash, newHash) ==
    ReviewHead(files, oldHash, newHash)
      \o (IF Len(issues) = 0 THEN <<"o", "k", NL>>
          ELSE <<"!", "(">> \o NumToStr(Len(issues)) \o <<")", NL>>
                 \o JoinLines([i \in 1..Len(issues) |-> issues[i].filename])
                 \o <<NL>>)

\* the text of review.md shows a commit range that ends at hash
RangeEndsAt(content, hash) ==
    Contains(content, <<">", BQ>> \o hash \o <<BQ, NL>>)

\* a commit is made in the workspace, one of at most max
NewCommit(max) ==
    /\ \E n \in 1..max :
          /\ gitHead = HashOf(n)
          /\ gitHead' = HashOf(n + 1)
    /\ agentCalls' = NoCalls
    /\ UNCHANGED <<lastHeadHash, polling, initialLookup, disposed, polls,
                   reviewInProgress, reviewFile, extensionVars>>

\* initialize(): the first getCurrentHeadHash settles (head: what git
\* printed, NoHash when it failed); lastHeadHash is set and startPolling
\* sets the interval
InitialHeadLookupDone(head) ==
    /\ initialLookup
    /\ initialLookup' = FALSE
    /\ lastHeadHash' = head
    /\ polling' = TRUE
    /\ agentCalls' = NoCalls
    /\ UNCHANGED <<gitHead, disposed, polls, reviewInProgress,
                   reviewFile, extensionVars>>

\* dispose(): if (this.pollingInterval) the interval is cleared
Dispose ==
    /\ ~disposed
    /\ disposed' = TRUE
    /\ polling' = FALSE
    /\ agentCalls' = NoCalls
    /\ UNCHANGED <<gitHead, lastHeadHash, initialLookup, polls, reviewInProgress, reviewFile, extensionVars>>

\* the checkForNewCommit call poll returns
Returned(poll) == polls (-) SetToBag({poll})

\* the checkForNewCommit call poll goes on to its next await
Awaits(poll, next) == Returned(poll) (+) SetToBag({next})

\* the interval fires: checkForNewCommit starts and awaits
\* getCurrentHeadHash
PollTick ==
    /\ polling
    /\ BagCardinality(polls) < MaxPolls
    /\ polls' = polls (+) SetToBag({StartedPoll})
    /\ agentCalls' = NoCalls
    /\ UNCHANGED <<gitHead, lastHeadHash, polling, initialLookup, disposed,
                   reviewInProgress, reviewFile, extensionVars>>

\* checkForNewCommit after `git rev-parse HEAD` settled with currentHash
\* (NoHash: it failed): it returns, or records the hash, or, when the hash
\* differs from lastHeadHash, handleNewCommit starts and awaits
\* getChangedFiles
RevParseDone(poll, currentHash) ==
    /\ BagIn(poll, polls)
    /\ poll.pc = "rev-parse"
    /\ IF currentHash = NoHash
         THEN /\ polls' = Returned(poll)
              /\ UNCHANGED lastHeadHash
         ELSE IF lastHeadHash # NoHash /\ lastHeadHash # currentHash
           THEN /\ polls' = Awaits(poll,
                               [poll EXCEPT !.pc = "diff",
                                            !.oldHash = lastHeadHash,
                                            !.newHash = currentHash])
                /\ UNCHANGED lastHeadHash
           ELSE /\ polls' = Returned(poll)
                /\ lastHeadHash' = currentHash
    /\ agentCalls' = NoCalls
    /\ UNCHANGED <<gitHead, polling, initialLookup, disposed, reviewInProgress, reviewFile, extensionVars>>

\* a mutant of ProcessChangesCall: the two hashes change places
ProcessChangesCallSwapped(changedFiles, oldHash, newHash) ==
    [files |-> changedFiles, oldHash |-> newHash, newHash |-> oldHash]

\* await this.agent.processChanges(changedFiles, oldHash, newHash)
ProcessChangesCall(changedFiles, oldHash, newHash) ==
    [files |-> changedFiles, oldHash |-> oldHash, newHash |-> newHash]

\* a mutant of SkipsRequest: no request is skipped
SkipsRequestNever == FALSE

\* processChanges: if (this.reviewInProgress) { ...; return; }
SkipsRequest == reviewInProgress

\* a mutant of FlagAfterGeneration: the flag is left as it is
FlagAfterGenerationKept == reviewInProgress

\* generateReviewContent: finally { this.reviewInProgress = false; }
FlagAfterGeneration == FALSE

\* handleNewCommit after `git diff --name-only` settled with output:
\* agent.processChanges is called with the changed files.  When a review
\* is in progress it returns at once, and so do handleNewCommit and
\* checkForNewCommit, which records the hash; otherwise
\* generateReviewContent sets reviewInProgress and awaits the model
DiffDone(poll, output) ==
    /\ BagIn(poll, polls)
    /\ poll.pc = "diff"
    /\ agentCalls' =
          <<ProcessChangesCall(getChangedFiles(output), poll.oldHash,
                               poll.newHash)>>
    /\ IF SkipsRequest
         THEN /\ polls' = Returned(poll)
              /\ lastHeadHash' = poll.newHash
              /\ UNCHANGED reviewInProgress
         ELSE /\ polls' = Awaits(poll,
                               [poll EXCEPT !.pc = "review",
                                            !.files = getChangedFiles(output)])
              /\ reviewInProgress' = TRUE
              /\ UNCHANGED lastHeadHash
    /\ UNCHANGED <<gitHead, polling, initialLookup, disposed, reviewFile,
                   extensionVars>>

\* generateReviewContent returns the stub review (no model, an empty or
\* unparsable answer, an error of the request): reviewInProgress is
\* cleared, writeReviewFile writes review.md, and processChanges awaits the
\* answer to its "Code review generated" message
ReviewDoneStub(poll) ==
    /\ BagIn(poll, polls)
    /\ poll.pc = "review"
    /\ reviewInProgress' = FlagAfterGeneration
    /\ reviewFile' = generateStubReview(poll.files, poll.oldHash, poll.newHash)
    /\ polls' = Awaits(poll, [poll EXCEPT !.pc = "notify"])
    /\ agentCalls' = NoCalls
    /\ UNCHANGED <<gitHead, lastHeadHash, polling, initialLookup, disposed,
                   extensionVars>>

\* generateReviewContent parsed the model's answer: every issue gets
\* reviewCommit = newHash and the review callback runs.  When it returns,
\* the markdown of the issues is the review; when it throws, the catch
\* falls back to the stub.  Then as above
ReviewDoneModel(poll, review) ==
    /\ BagIn(poll, polls)
    /\ poll.pc = "review"
    /\ UpdateReviewAndDiagnostics(
          StampReviewCommit(review, poll.newHash), poll.newHash)
    /\ reviewInProgress' = FlagAfterGeneration
    /\ reviewFile' =
          IF \E i \in 1..Len(review) : PathJoinThrows(review[i])
            THEN generateStubReview(poll.files, poll.oldHash, poll.newHash)
            ELSE generateMarkdownFromIssues(review, poll.files, poll.oldHash,
                                            poll.newHash)
    /\ polls' = Awaits(poll, [poll EXCEPT !.pc = "notify"])
    /\ agentCalls' = NoCalls
    /\ UNCHANGED <<gitHead, lastHeadHash, polling, initialLookup, disposed>>

\* the message is answered or goes away: processChanges and handleNewCommit
\* return, and checkForNewCommit records the hash
NotifyDone(poll) ==
    /\ BagIn(poll, polls)
    /\ poll.pc = "notify"
    /\ lastHeadHash' = poll.newHash
    /\ polls' = Returned(poll)
    /\ agentCalls' = NoCalls
    /\ UNCHANGED <<gitHead, polling, initialLookup, disposed, reviewInProgress, reviewFile, extensionVars>>

\* activate() in a git repository: the watcher is constructed and its
\* first HEAD lookup is under way
InitWatch ==
    /\ InitExtension
    /\ ResolverIdle
    /\ gitHead = HashOf(1)
    /\ lastHeadHash = NoHash
    /\ polling = FALSE
    /\ initialLookup = TRUE
    /\ disposed = FALSE
    /\ polls = NoPolls
    /\ ProviderIdle

NextWatch ==
    \/ NewCommit(MaxCommits)
    \/ \E head \in {gitHead, NoHash} : InitialHeadLookupDone(head)
    \/ Dispose
    \/ PollTick
    \/ \E poll \in BagToSet(polls) : \E currentHash \in {gitHead, NoHash} :
          RevParseDone(poll, currentHash)
    \/ \E poll \in BagToSet(polls) : \E output \in DiffOutputs :
          DiffDone(poll, output)
    \/ \E poll \in BagToSet(polls) : ReviewDoneStub(poll)
    \/ \E poll \in BagToSet(polls) : \E review \in WatchReviews :
          ReviewDoneModel(poll, review)
    \/ \E poll \in BagToSet(polls) : NotifyDone(poll)

(***************************************************************************)
(* SpecWatchLive: the watcher where git always answers, no model is there  *)
(* (every review is the stub) and every await settles in the end           *)
(***************************************************************************)
\* the repository gets at most MaxLiveCommits commits in the fair runs
MaxLiveCommits == 3

\* what git diff prints in the fair runs
LiveDiffOutput == FileA \o <<NL>>

RevParseSettles == \E poll \in BagToSet(polls) : RevParseDone(poll, gitHead)
DiffSettles == \E poll \in BagToSet(polls) : DiffDone(poll, LiveDiffOutput)
ReviewSettles == \E poll \in BagToSet(polls) : ReviewDoneStub(poll)
NotifySettles == \E poll \in BagToSet(polls) : NotifyDone(poll)

NextWatchLive ==
    \/ NewCommit(MaxLiveCommits)
    \/ InitialHeadLookupDone(gitHead)
    \/ PollTick
    \/ RevParseSettles
    \/ DiffSettles
    \/ ReviewSettles
    \/ NotifySettles

(***************************************************************************)
(* SpecProvider: generateReview with every Copilot extension whose API     *)
(* functions behave in one of the ways of ApiBehaviours                    *)
(***************************************************************************)
nonProviderVars ==
    <<hostVars, decorations, globalState, lastDismiss, decVars, diagVars,
      storageVars, resolverVars, watcherVars>>

InitProvider ==
    /\ InitExtension
    /\ ResolverIdle
    /\ WatcherIdle
    /\ statusBar = StatusBarHidden
    /\ \E ext \in {"none", "failing", "active"}, diff \in ProviderDiffs :
         \E api \in [1..Len(ApiOrder) -> ApiBehaviours] :
            /\ ext # "active" => api = NoApi
            /\ copilot = [ext |-> ext, api |-> api, diff |-> diff,
                          result |-> NotGenerated]

\* const res = await provider.generateReview(files, oldHash, newHash)
GenerateReview ==
    /\ copilot' =
          [copilot EXCEPT !.result =
              generateReview(copilot, ProviderFiles, ProviderOldHash,
                             ProviderNewHash)]
    /\ UNCHANGED <<statusBar, nonProviderVars>>

NextProvider == GenerateReview

(***************************************************************************)
(* SpecStatusBar: the methods of StatusBarManager called in any order,     *)
(* and its timers firing                                                   *)
(***************************************************************************)
\* the issue counts showReviewComplete is called with
IssueCounts == 0..2

\* if (this.animationInterval) { clearInterval(...); ... = undefined }
StopAnimation(sb) ==
    IF sb.animationInterval
      THEN [sb EXCEPT !.animationInterval = FALSE, !.intervals = @ - 1]
      ELSE sb

\* hide(): if (!this.reviewInProgress) this.statusBarItem.hide()
hide(sb) ==
    IF ~sb.reviewInProgress THEN [sb EXCEPT !.visible = FALSE] ELSE sb

\* showReviewInProgress(): a new interval is set (one set before is not
\* cleared) and the item is shown
ShowReviewInProgress ==
    /\ statusBar.intervals < MaxTimers
    /\ statusBar' =
          [statusBar EXCEPT !.reviewInProgress = TRUE,
                            !.currentFrame = 0,
                            !.animationInterval = TRUE,
                            !.intervals = @ + 1,
                            !.visible = TRUE]
    /\ UNCHANGED <<copilot, nonProviderVars>>

\* an animation interval fires
AnimationTick ==
    /\ statusBar.intervals > 0
    /\ statusBar.reviewInProgress
    /\ statusBar' =
          [statusBar EXCEPT
              !.text = [kind |-> "progress", n |-> statusBar.currentFrame],
              !.currentFrame = (@ + 1) % AnimationFrames]
    /\ UNCHANGED <<copilot, nonProviderVars>>

\* showReviewComplete(issueCount): with no issues a timer of 3 s is set
ShowReviewComplete(issueCount) ==
    /\ issueCount = 0 => statusBar.completeTimers < MaxTimers
    /\ statusBar' =
          [StopAnimation(statusBar) EXCEPT
              !.reviewInProgress = FALSE,
              !.text = [kind |-> "complete", n |-> issueCount],
              !.visible = TRUE,
              !.completeTimers = IF issueCount = 0 THEN @ + 1 ELSE @]
    /\ UNCHANGED <<copilot, nonProviderVars>>

\* showReviewError(error): a timer of 5 s is set
ShowReviewError ==
    /\ statusBar.errorTimers < MaxTimers
    /\ statusBar' =
          [StopAnimation(statusBar) EXCEPT
              !.reviewInProgress = FALSE,
              !.text = [kind |-> "error", n |-> 0],
              !.visible = TRUE,
              !.errorTimers = @ + 1]
    /\ UNCHANGED <<copilot, nonProviderVars>>

\* a timer of showReviewComplete fires:
\* if (!this.reviewInProgress) this.hide()
CompleteTimerFires ==
    /\ statusBar.completeTimers > 0
    /\ statusBar' =
          [(IF ~statusBar.reviewInProgress THEN hide(statusBar)
            ELSE statusBar) EXCEPT !.completeTimers = @ - 1]
    /\ UNCHANGED <<copilot, nonProviderVars>>

\* a timer of showReviewError fires: this.hide()
ErrorTimerFires ==
    /\ statusBar.errorTimers > 0
    /\ statusBar' = [hide(statusBar) EXCEPT !.errorTimers = @ - 1]
    /\ UNCHANGED <<copilot, nonProviderVars>>

\* clear()
ClearStatus ==
    /\ statusBar' =
          [StopAnimation(statusBar) EXCEPT !.reviewInProgress = FALSE,
                                           !.visible = FALSE]
    /\ UNCHANGED <<copilot, nonProviderVars>>

NextStatusBar ==
    \/ ShowReviewInProgress
    \/ AnimationTick
    \/ \E issueCount \in IssueCounts : ShowReviewComplete(issueCount)
    \/ ShowReviewError
    \/ CompleteTimerFires
    \/ ErrorTimerFires
    \/ ClearStatus

(***************************************************************************)
(* SpecPersist: dismissals and restores whose globalState.update promises  *)
(* settle later, resolved or rejected                                      *)
(***************************************************************************)
\* the review on display while the ledger is written
PersistReview == <<IssueA1, IssueB2>>

\* the keys the dismissIssue command is run with: the hover's keys of both
\* issues and the Quick Fix's key of the first
PersistKeys ==
    {getIssueKey(IssueA1), getIssueKey(IssueB2),
     QuickFixKey(PathJoin(WorkspaceRoot, FileA), createDiagnostic(IssueA1))}

NextPersist ==
    \/ ReviewCompleted(PersistReview, CommitOne)
    \/ \E f \in FileNames : ChangeActiveTextEditor(f)
    \/ \E key \in PersistKeys :
          /\ lastDismiss.key = key => lastDismiss.calls < MaxDismissCalls
          /\ DismissIssue(key, FALSE)
    \/ ClearDismissedIssues(FALSE)
    \/ \E outcome \in {"resolved", "rejected"} : SettleWrite(outcome)

(***************************************************************************)
(* SpecResolve: findCurrentLine applied to bounded issues and file texts   *)
(***************************************************************************)
\* a document has at most MaxLines lines of text
MaxLines == 13

\* a line that never matches, and the texts of the (at most two) other lines
Filler == <<"y">>
OccupiedTexts == {<<" ", "x">>, <<>>}

\* issue.lineContent: undefined, "", text with trailing blank, blanks only
LineContents == {Absent, <<>>, <<"x", " ">>, <<" ">>}

\* issue.line: undefined (NoLine), a negative number, in and out of bounds
IssueLines == (0 - 1) .. (MaxLines + 1)

\* the document whose lines p1 and p2 (0: none) hold v, the others Filler
DocumentOf(n, p1, p2, v) ==
    JoinLines([i \in 1..n |-> IF i = p1 \/ i = p2 THEN v ELSE Filler])

InitResolve ==
    /\ \E n \in 0..MaxLines, v \in OccupiedTexts :
         \E p1 \in 0..n, p2 \in 0..n :
            /\ p1 <= p2
            /\ (p1 = 0 \/ p1 < p2 \/ p2 = 0)
            /\ fileContent = DocumentOf(n, p1, p2, v)
    /\ \E ln \in IssueLines, lc \in LineContents :
         rIssue = [line |-> ln, lineContent |-> lc]
    /\ location = NotCalled
    /\ InitExtension
    /\ WatcherIdle
    /\ ProviderIdle

\* const location = this.findCurrentLine(issue, fileContent)
Resolve ==
    /\ location' = findCurrentLine(rIssue, fileContent)
    /\ UNCHANGED <<rIssue, fileContent>>
    /\ UNCHANGED <<hostVars, decorations, globalState, lastDismiss, decVars,
                   diagVars, storageVars, watcherVars, providerVars>>

NextResolve == Resolve

vars ==
    <<resolverVars, providerVars, hostVars, decorations, globalState, lastDismiss, decVars,
      diagVars, storageVars, watcherVars>>

SpecResolve == InitResolve /\ [][NextResolve]_vars

Spec == Init /\ [][Next]_vars

SpecIngest == Init /\ [][NextIngest]_vars

SpecPersist == Init /\ [][NextPersist]_vars

SpecWatch == InitWatch /\ [][NextWatch]_vars

\* the timer fires as long as it is set, and every promise settles
FairWatch ==
    /\ WF_vars(InitialHeadLookupDone(gitHead))
    /\ WF_vars(PollTick)
    /\ WF_vars(RevParseSettles)
    /\ WF_vars(DiffSettles)
    /\ WF_vars(ReviewSettles)
    /\ WF_vars(NotifySettles)

SpecWatchLive == InitWatch /\ [][NextWatchLive]_vars /\ FairWatch

SpecProvider == InitProvider /\ [][NextProvider]_vars

SpecStatusBar == Init /\ [][NextStatusBar]_vars

(***************************************************************************)
(* The Location Resolver's claims, stated on the resolver harness          *)
(***************************************************************************)
Abs(x) == IF x < 0 THEN 0 - x ELSE x

Resolved == location # NotCalled

\* the lines of the current text, and those whose trimmed text is the
\* issue's trimmed lineContent
RLines == Split(fileContent, NL)
RMatchLines ==
    LET ls == Split(fileContent, NL)
        wanted == Trim(rIssue.lineContent)
    IN  {i \in 1..Len(ls) : Trim(ls[i]) = wanted}
RNearMatchLines ==
    LET all == RMatchLines
    IN  {i \in all : Abs(i - rIssue.line) <= NearbyWindow}

\* an issue with a line and a (non-empty) lineContent has been resolved
ResolvedWithContent ==
    Resolved /\ rIssue.line # NoLine /\ HasLineContent(rIssue)

\* C4: an issue with a line and a lineContent whose trimmed lineContent is
\* the trimmed text of line issue.line resolves to exact at issue.line, after
\* the first call and after every repeated call.
C4_ExactAtRecordedLine ==
    (ResolvedWithContent /\ rIssue.line \in RMatchLines)
      => location = [currentLine |-> rIssue.line, confidence |-> "exact"]

\* C4 witness: an exact result whose match needed the trimming
C4_Witness ==
    /\ ResolvedWithContent
    /\ rIssue.line \in RMatchLines
    /\ RLines[rIssue.line] # rIssue.lineContent
    /\ location.confidence = "exact"

\* C5: when the recorded line no longer matches and the trimmed lineContent
\* occurs within NearbyWindow lines of issue.line, the result is approximate
\* at such a line (the new line when there is one), never exact.
C5_ApproximateWithinWindow ==
    (ResolvedWithContent /\ rIssue.line \notin RMatchLines
        /\ RNearMatchLines # {})
      => /\ location.confidence = "approximate"
         /\ location.currentLine \in RNearMatchLines
         /\ location.currentLine # rIssue.line

\* C5 witness: the text moved down by two lines and is found there
C5_Witness ==
    /\ ResolvedWithContent
    /\ rIssue.line \notin RMatchLines
    /\ RNearMatchLines = {rIssue.line + 2}
    /\ location = [currentLine |-> rIssue.line + 2,
                   confidence |-> "approximate"]

\* C6 as claimed: with two or more occurrences inside the window the result
\* is the occurrence nearest to issue.line.
C6_NearestInWindow ==
    (ResolvedWithContent /\ rIssue.line \notin RMatchLines
        /\ Cardinality(RNearMatchLines) >= 2)
      => /\ location.confidence = "approximate"
         /\ location.currentLine \in RNearMatchLines
         /\ \A j \in RNearMatchLines :
               Abs(location.currentLine - rIssue.line) <= Abs(j - rIssue.line)

\* C6 amended: with two or more occurrences inside the window the result is
\* approximate at the occurrence with the lowest line number (the first hit
\* of the scan over offsets -10 .. +10 in ascending order).
C6_FirstInWindow ==
    (ResolvedWithContent /\ rIssue.line \notin RMatchLines
        /\ Cardinality(RNearMatchLines) >= 2)
      => /\ location.confidence = "approximate"
         /\ location.currentLine \in RNearMatchLines
         /\ \A j \in RNearMatchLines : location.currentLine <= j

\* C6 witness: two occurrences in the window, the chosen one is the farther
C6_Witness ==
    /\ ResolvedWithContent
    /\ rIssue.line \notin RMatchLines
    /\ Cardinality(RNearMatchLines) >= 2
    /\ location.confidence = "approximate"
    /\ \E j \in RNearMatchLines :
          Abs(j - rIssue.line) < Abs(location.currentLine - rIssue.line)

\* C7: when the trimmed lineContent occurs only more than NearbyWindow lines
\* away from issue.line, the result is approximate at the lowest matching
\* line number, even if another occurrence is closer.
C7_FirstInFileBeyondWindow ==
    (ResolvedWithContent /\ RMatchLines # {} /\ RNearMatchLines = {})
      => /\ location.confidence = "approximate"
         /\ location.currentLine \in RMatchLines
         /\ \A j \in RMatchLines : location.currentLine <= j

\* C7 witness: two occurrences beyond the window, the later one is closer
C7_Witness ==
    /\ ResolvedWithContent
    /\ RNearMatchLines = {}
    /\ location.confidence = "approximate"
    /\ \E j \in RMatchLines :
          Abs(j - rIssue.line) < Abs(location.currentLine - rIssue.line)

\* C8: an issue with a line and a lineContent resolves to stale exactly when
\* no line of the file has the trimmed lineContent, and then currentLine is
\* the issue's original line.
C8_StaleIffNoMatch ==
    ResolvedWithContent
      => /\ (location.confidence = "stale") <=> (RMatchLines = {})
         /\ location.confidence = "stale"
              => location.currentLine = rIssue.line

\* C8 witness: a stale result for a line inside the file
C8_Witness ==
    /\ ResolvedWithContent
    /\ rIssue.line \in 1..Len(RLines)
    /\ RMatchLines = {}
    /\ location = [currentLine |-> rIssue.line, confidence |-> "stale"]

\* C9: an issue with a line and no lineContent resolves to approximate at
\* issue.line when 1 <= issue.line <= lineCount, to stale otherwise, and
\* never to exact.
C9_NoContentUsesLineNumber ==
    (Resolved /\ rIssue.line # NoLine /\ ~HasLineContent(rIssue))
      => /\ (rIssue.line >= 1 /\ rIssue.line <= Len(RLines))
              => location = [currentLine |-> rIssue.line,
                             confidence |-> "approximate"]
         /\ ~(rIssue.line >= 1 /\ rIssue.line <= Len(RLines))
              => location.confidence = "stale"
         /\ location.confidence # "exact"

\* C9 witness: no lineContent, the line in bounds, an approximate result
C9_Witness ==
    /\ Resolved
    /\ rIssue.lineContent = Absent
    /\ rIssue.line >= 1
    /\ rIssue.line <= Len(RLines)
    /\ location.confidence = "approximate"

\* C10 as claimed: an issue whose line is beyond the last line is stale,
\* whether or not its lineContent occurs in the file.
C10_OutOfBoundsIsStale ==
    (Resolved /\ rIssue.line # NoLine /\ rIssue.line > Len(RLines))
      => location.confidence = "stale"

\* C10 amended: an issue whose line is beyond the last line is never exact;
\* it is stale exactly when it has no lineContent or its trimmed lineContent
\* occurs nowhere in the file, and otherwise approximate at a matching line.
C10_OutOfBoundsStaleUnlessFound ==
    (Resolved /\ rIssue.line # NoLine /\ rIssue.line > Len(RLines))
      => /\ location.confidence \in {"stale", "approximate"}
         /\ (location.confidence = "stale")
              <=> (~HasLineContent(rIssue) \/ RMatchLines = {})
         /\ location.confidence = "approximate"
              => location.currentLine \in RMatchLines

\* C10 witness: the line is out of bounds and the text is found elsewhere
C10_Witness ==
    /\ ResolvedWithContent
    /\ rIssue.line > Len(RLines)
    /\ location.confidence = "approximate"
    /\ location.currentLine \in RMatchLines

\* C11 as claimed: against the empty file text every issue that has a line
\* resolves to stale, with or without lineContent, for every line number.
C11_EmptyTextIsStale ==
    (Resolved /\ fileContent = <<>> /\ rIssue.line # NoLine)
      => location.confidence = "stale"

\* C11 amended: the empty text is one empty line.  Against it an issue with
\* a line is stale when its lineContent has text left after trimming, or
\* when it has no lineContent (undefined or "") and its line is not 1; with
\* no lineContent and line 1 it is approximate at line 1; with a lineContent
\* of white space only it is found at line 1, exact when its line is 1 and
\* approximate otherwise.
C11_EmptyTextStaleUnlessLineOne ==
    (Resolved /\ fileContent = <<>> /\ rIssue.line # NoLine)
      => IF ~HasLineContent(rIssue)
           THEN location =
                  [currentLine |-> rIssue.line,
                   confidence |-> IF rIssue.line = 1 THEN "approximate"
                                  ELSE "stale"]
         ELSE IF Trim(rIssue.lineContent) # <<>>
           THEN location = [currentLine |-> rIssue.line,
                            confidence |-> "stale"]
         ELSE location =
                  [currentLine |-> 1,
                   confidence |-> IF rIssue.line = 1 THEN "exact"
                                  ELSE "approximate"]

\* C11 witness: the text is empty and an issue of line 1 without lineContent
\* is placed on line 1
C11_Witness ==
    /\ Resolved
    /\ fileContent = <<>>
    /\ rIssue = [line |-> 1, lineContent |-> Absent]

\* C38: an exact or approximate result names a line of the file; when the
\* issue has a lineContent, the trimmed text of that line is the trimmed
\* lineContent, and an approximate result is not at issue.line.
C38_ResolvedLineIsInFileAndMatches ==
    (Resolved /\ location.confidence \in {"exact", "approximate"})
      => /\ location.currentLine >= 1
         /\ location.currentLine <= Len(RLines)
         /\ HasLineContent(rIssue)
              => /\ Trim(RLines[location.currentLine])
                      = Trim(rIssue.lineContent)
                 /\ location.confidence = "approximate"
                      => location.currentLine # rIssue.line

\* C38 witness: the lineContent is not at issue.line nor within the window
\* around it, and the full search found it on a line of the file
C38_Witness ==
    /\ ResolvedWithContent
    /\ rIssue.line \in 1..Len(RLines)
    /\ location.confidence = "approximate"
    /\ Abs(location.currentLine - rIssue.line) > NearbyWindow
    /\ location.currentLine \in RMatchLines

Ledger == decDismissedIssues

\* the issues the inline-annotation surface shows, those the diagnostics
\* surface shows, and the issues of the current review in each store
InlineShown ==
    UNION {{decorations[f][k].issue : k \in 1..Len(decorations[f])} :
              f \in FileNames}
DiagnosticsShown ==
    UNION {{diagnosticCollection[fp][k].issue :
               k \in 1..Len(diagnosticCollection[fp])} : fp \in FsPaths}
StoredIssues(index) ==
    UNION {{index[fp][k] : k \in 1..Len(index[fp])} : fp \in FsPaths}

\* C1: neither surface renders an issue whose identity key filename:id:title
\* is in the Dismissal Ledger.
C1_NoDismissedIssueRendered ==
    \A issue \in InlineShown \cup DiagnosticsShown :
        getIssueKey(issue) \notin Ledger

\* C2: for every issue of the current review the inline-annotation surface
\* treats it as dismissed exactly when the diagnostics surface does.
C2_SurfacesAgreeOnDismissal ==
    \A issue \in StoredIssues(decIssuesByFile)
                   \cup StoredIssues(diagIssuesByFile) :
        decIsIssueDismissed(issue, decDismissedIssues)
          <=> diagIsIssueDismissed(issue, diagDismissedIssues)

\* the state both surfaces are in after a mark-as-fixed of issue
DismissedOnBothSurfaces(issue) ==
    /\ decIsIssueDismissed(issue, decDismissedIssues)
    /\ diagIsIssueDismissed(issue, diagDismissedIssues)
    /\ issue \notin InlineShown
    /\ issue \notin DiagnosticsShown

\* the same of the state a step leads to, for an issue of the state it leaves
DismissedOnBothSurfacesNext(issue) ==
    /\ decIsIssueDismissed(issue, decDismissedIssues')
    /\ diagIsIssueDismissed(issue, diagDismissedIssues')
    /\ issue \notin InlineShown'
    /\ issue \notin DiagnosticsShown'

\* no surface shows an issue that its own dismissed set holds
NoSurfaceShowsItsDismissed ==
    /\ \A issue \in InlineShown :
          ~decIsIssueDismissed(issue, decDismissedIssues)
    /\ \A issue \in DiagnosticsShown :
          ~diagIsIssueDismissed(issue, diagDismissedIssues)

\* C3: a mark-as-fixed invoked from the diagnostics surface, or from the
\* inline surface, for an issue of the current review leaves the issue
\* dismissed on both surfaces and shown by neither; no later render pass
\* shows an issue its surface holds dismissed, and within a session a
\* dismissed set only shrinks by the clearDismissedIssues command.
C3_DismissalReachesBothSurfaces ==
    [][ /\ \A fp \in FsPaths : \A k \in 1..Len(diagnosticCollection[fp]) :
              MarkAsFixedFromQuickFix(fp, k)
                => DismissedOnBothSurfacesNext(
                      diagnosticCollection[fp][k].issue)
        /\ \A f \in FileNames : \A k \in 1..Len(decorations[f]) :
              MarkAsFixedFromHover(f, k)
                => DismissedOnBothSurfacesNext(decorations[f][k].issue)
        /\ NoSurfaceShowsItsDismissed'
        /\ \/ /\ decDismissedIssues \subseteq decDismissedIssues'
              /\ diagDismissedIssues \subseteq diagDismissedIssues'
           \/ ClearDismissedIssuesCommand
           \/ Restart
      ]_vars

\* C3 witness: an issue of the current review, present in its visible
\* document, was marked as fixed through the Quick Fix of its diagnostic
\* (whose key carries the category) and is shown by neither surface
C3_Witness ==
    \E issue \in StoredIssues(diagIssuesByFile) :
        /\ issue.filename \in visibleEditors
        /\ findCurrentLine(issue, documents[issue.filename]).confidence
              = "exact"
        /\ QuickFixKey(PathJoin(WorkspaceRoot, issue.filename),
                       createDiagnostic(issue)) \in decDismissedIssues
        /\ QuickFixKey(PathJoin(WorkspaceRoot, issue.filename),
                       createDiagnostic(issue)) # getIssueKey(issue)
        /\ DismissedOnBothSurfaces(issue)

\* the Location Resolver's result for a stored issue against the current
\* text of its document
ResolutionOf(issue) == findCurrentLine(issue, documents[issue.filename])

IsStale(issue) == ResolutionOf(issue).confidence = "stale"

\* a render pass of both surfaces: an ingestion, or the restoring of the
\* dismissed issues
RenderPassOfBoth ==
    \/ \E review \in Reviews : ReviewCompleted(review, CommitOne)
    \/ ClearDismissedIssuesCommand

\* C12: after a render pass neither an inline annotation nor a diagnostic
\* exists for an issue whose resolution against the current file text is
\* stale.
C12_StaleIsNotRendered ==
    [][RenderPassOfBoth
         => \A issue \in InlineShown' \cup DiagnosticsShown' :
               ~IsStale(issue)']_vars

\* the decorations and the diagnostics on display, of all files
DecorationsShown ==
    UNION {{decorations[f][k] : k \in 1..Len(decorations[f])} :
              f \in FileNames}
DiagnosticsSet ==
    UNION {{diagnosticCollection[fp][k] :
               k \in 1..Len(diagnosticCollection[fp])} : fp \in FsPaths}

\* C13: after a render pass every rendered issue that has a line sits, on
\* the inline surface and on the diagnostics surface alike, on the 0-based
\* line (currentLine - 1) of the Location Resolver's result for the current
\* file text.
C13_RenderedOnResolvedLine ==
    [][RenderPassOfBoth
         => \A shown \in DecorationsShown' \cup DiagnosticsSet' :
               shown.issue.line # NoLine
                 => shown.line = ResolutionOf(shown.issue)'.currentLine - 1
      ]_vars

dismissalVars ==
    <<decDismissedIssues, globalState, diagDismissedIssues, decorations,
      diagnosticCollection>>

\* C15: a dismissIssue command that runs again with the same key, straight
\* after its first run, leaves the in-memory dismissed sets, the persisted
\* array and what both surfaces render as the first run left them.
C15_DismissIsIdempotent ==
    [][lastDismiss'.calls >= 2 => UNCHANGED dismissalVars]_vars

\* C15 witness: the Quick Fix key of an issue of the current review, whose
\* editor is visible and holds its line, was dismissed twice in a row; the
\* key is in the set and in the persisted array and no surface shows the
\* issue
C15_Witness ==
    /\ lastDismiss.calls = 2
    /\ lastDismiss.key \in decDismissedIssues
    /\ lastDismiss.key \in loadDismissedIssues(globalState)
    /\ \E issue \in StoredIssues(diagIssuesByFile) :
          /\ lastDismiss.key
                = QuickFixKey(PathJoin(WorkspaceRoot, issue.filename),
                              createDiagnostic(issue))
          /\ issue.filename \in visibleEditors
          /\ ResolutionOf(issue).confidence = "exact"
          /\ DismissedOnBothSurfaces(issue)

\* the issues of the current review
CurrentIssues ==
    StoredIssues(decIssuesByFile) \cup StoredIssues(diagIssuesByFile)

\* C16: after the clearDismissedIssues command, whatever was dismissed
\* before and from whichever surface, no issue is dismissed on either
\* surface, nothing is left in the persisted array, and the render pass the
\* command makes shows every issue of the current review again unless it is
\* stale: as a diagnostic, and as an inline annotation when its editor is
\* visible and the issue has a line.
C16_RestoreAllShowsEverything ==
    [][ClearDismissedIssuesCommand
         => /\ decDismissedIssues' = {}
            /\ diagDismissedIssues' = {}
            /\ loadDismissedIssues(globalState') = {}
            /\ \A issue \in CurrentIssues :
                  /\ ~decIsIssueDismissed(issue, decDismissedIssues')
                  /\ ~diagIsIssueDismissed(issue, diagDismissedIssues')
                  /\ ~IsStale(issue) => issue \in DiagnosticsShown'
                  /\ (~IsStale(issue) /\ issue.line # NoLine
                        /\ issue.filename \in visibleEditors)
                      => issue \in InlineShown'
      ]_vars

\* C16 witness: clearDismissedIssues has just restored dismissed keys, and
\* an issue of the current review is shown by both surfaces again
C16_Witness ==
    /\ lastDismiss.restored >= 2
    /\ decDismissedIssues = {}
    /\ diagDismissedIssues = {}
    /\ \E issue \in CurrentIssues :
          issue \in InlineShown /\ issue \in DiagnosticsShown

\* the keys held by the array persisted under "dismissedIssues"
PersistedKeys == {globalState[i] : i \in 1..Len(globalState)}

\* C17: after every step, a dismissal or a restoring among them, the
\* persisted array holds exactly the keys of the in-memory ledger, each
\* once; and a restart loads exactly the keys the previous session
\* persisted, so the ledger after the restart is the ledger before it.
C17_LedgerRoundTrips ==
    [][ /\ {globalState'[i] : i \in 1..Len(globalState')}
              = decDismissedIssues'
        /\ Len(globalState') = Cardinality(decDismissedIssues')
        /\ Restart => /\ decDismissedIssues' = PersistedKeys
                      /\ decDismissedIssues' = decDismissedIssues
      ]_vars

\* C17 witness: after a restart (the diagnostics side has forgotten, the
\* ledger has not) the ledger holds keys, and a re-ingested issue whose key
\* it holds is not annotated in its visible editor
C17_Witness ==
    /\ diagDismissedIssues = {}
    /\ decDismissedIssues # {}
    /\ PersistedKeys = decDismissedIssues
    /\ \E issue \in StoredIssues(decIssuesByFile) :
          /\ getIssueKey(issue) \in decDismissedIssues
          /\ issue.filename \in visibleEditors
          /\ ResolutionOf(issue).confidence = "exact"
          /\ issue \notin InlineShown

\* C18: for every rendered issue, the key its hover link passes to the
\* dismissIssue command and the key the Quick Fix of its diagnostic passes
\* are both the issue's identity key filename:id:title.
C18_ActionKeyIsIdentityKey ==
    /\ \A f \in FileNames : \A k \in 1..Len(decorations[f]) :
          HoverKey(decorations[f][k])
            = getIssueKey(decorations[f][k].issue)
    /\ \A fp \in FsPaths : \A k \in 1..Len(diagnosticCollection[fp]) :
          QuickFixKey(fp, diagnosticCollection[fp][k])
            = getIssueKey(diagnosticCollection[fp][k].issue)

\* an ingestion: the review-completed callback runs both surfaces' update
Ingestion == \E review \in Reviews : ReviewCompleted(review, CommitOne)

\* C19: an ingestion changes neither surface's dismissed set nor the
\* persisted array, and after it every issue of the new review whose
\* identity key is in the Dismissal Ledger is dismissed on both surfaces and
\* shown by neither.
C19_IngestionKeepsLedger ==
    [][Ingestion
         => /\ UNCHANGED <<decDismissedIssues, diagDismissedIssues,
                           globalState>>
            /\ \A issue \in CurrentIssues' :
                  getIssueKey(issue) \in Ledger'
                    => /\ decIsIssueDismissed(issue, decDismissedIssues')
                       /\ diagIsIssueDismissed(issue, diagDismissedIssues')
                       /\ issue \notin InlineShown'
                       /\ issue \notin DiagnosticsShown'
      ]_vars

\* the ids of the issues of a review, and of those the store holds
IdsOf(review) == {review[i].id : i \in 1..Len(review)}
storedIds == {issue.id : issue \in StoredIssues(decIssuesByFile)}

\* the issues of a review as ingested (reviewCommit filled in)
IngestedIssues(review) ==
    LET issues == BackfillCommit(review, CommitOne)
    IN  {issues[i] : i \in 1..Len(issues)}

\* C20: after the ingestion of a review each surface's store holds, for
\* every file, exactly the issues of that review with that filename, each
\* once, and every annotation and every diagnostic on display belongs to an
\* issue of that review.  (The conditions before ReviewCompleted follow
\* from it; they only spare its evaluation for the steps of other handlers
\* and of other reviews.)
C20_IngestReplacesIssues ==
    [][(lastDismiss' = NoDismiss /\ UNCHANGED <<hostVars, decDismissedIssues>>)
       => \A review \in Reviews :
          (/\ IdsOf(review) = storedIds'
           /\ ReviewCompleted(review, CommitOne))
            => LET ingested == IngestedIssues(review)
               IN  /\ \A fp \in FsPaths :
                        LET ofFile ==
                              {issue \in ingested :
                                  PathJoin(WorkspaceRoot, issue.filename)
                                    = fp}
                        IN  /\ {decIssuesByFile'[fp][k] :
                                   k \in 1..Len(decIssuesByFile'[fp])}
                                 = ofFile
                            /\ Len(decIssuesByFile'[fp])
                                 = Cardinality(ofFile)
                            /\ diagIssuesByFile'[fp] = decIssuesByFile'[fp]
                   /\ InlineShown' \subseteq ingested
                   /\ DiagnosticsShown' \subseteq ingested
      ]_vars

\* C20 witness: the ledger holds the key of an issue titled T of file a.ts,
\* dismissed in an earlier review; the current review holds only the issue
\* retitled U, and only that one is annotated
C20_Witness ==
    /\ getIssueKey(IssueA1) \in decDismissedIssues
    /\ CurrentIssues = IngestedIssues(<<IssueA1Retitled>>)
    /\ InlineShown = IngestedIssues(<<IssueA1Retitled>>)
    /\ DiagnosticsShown \subseteq CurrentIssues

\* C24: only an ingestion or a reload changes what the stores hold, so a
\* render pass keeps an issue that resolves to stale; and a render pass of
\* the inline surface (the editor becomes active, or the dismissed issues
\* are restored) annotates every issue of a visible file that is not
\* dismissed and that the current text resolves to a line, whatever the
\* text was at the render pass before.
C24_StaleIsKeptAndRenderedLater ==
    [][/\ (decIssuesByFile' # decIssuesByFile
            \/ diagIssuesByFile' # diagIssuesByFile)
          => (Restart \/ Ingestion)
       /\ \A f \in FileNames :
             ((ChangeActiveTextEditor(f) \/ ClearDismissedIssuesCommand)
                /\ f \in visibleEditors')
               => LET issues == decIssuesByFile'[PathJoin(WorkspaceRoot, f)]
                  IN  \A k \in 1..Len(issues) :
                        (/\ ~decIsIssueDismissed(issues[k],
                                                 decDismissedIssues')
                         /\ findCurrentLine(issues[k], documents'[f])
                               .confidence \in {"exact", "approximate"})
                          => issues[k] \in InlineShown'
      ]_vars

\* C24 witness: the editor of a.ts is visible and rendered without an
\* annotation for a stored issue that is not dismissed: its text is gone
\* from the file, and both stores still hold it
C24_Witness ==
    \E issue \in StoredIssues(decIssuesByFile)
                  \cap StoredIssues(diagIssuesByFile) :
        /\ issue.filename \in visibleEditors
        /\ IsStale(issue)
        /\ ~decIsIssueDismissed(issue, decDismissedIssues)
        /\ decorations[issue.filename] = <<>>

\* C28: a step that changes the text of a document changes no annotation
\* and no diagnostic (and nothing else the extension holds).
C28_EditTriggersNoRender ==
    [][documents' # documents
         => UNCHANGED <<decorations, diagnosticCollection, decVars, diagVars,
                        globalState>>
      ]_vars

\* C28 witness: a.ts was edited after it was rendered: the annotation
\* of an issue is still shown although the text it was placed on is gone
C28_Witness ==
    \E issue \in InlineShown :
        /\ issue.filename \in visibleEditors
        /\ IsStale(issue)
        /\ issue \in DiagnosticsShown

(***************************************************************************)
(* Persistence of the ledger (SpecPersist)                                 *)
(***************************************************************************)
\* C26: when the last pending write resolves, the persisted array holds
\* exactly the keys of the in-memory ledger: every key dismissed since the
\* last restore, whatever the order of the dismissals and of the settling
\* of their writes.
C26_NoAddIsLost ==
    [][(SettleWrite("resolved") /\ pendingWrites' = <<>>)
         => /\ PersistedKeys' = decDismissedIssues'
            /\ lastDismiss'.key # <<>> => lastDismiss'.key \in PersistedKeys'
      ]_vars

\* C26 witness: two keys were dismissed while writes were pending, all
\* writes have settled, and both keys are persisted
C26_Witness ==
    /\ pendingWrites = <<>>
    /\ Cardinality(decDismissedIssues) >= 2
    /\ PersistedKeys = decDismissedIssues
    /\ lastDismiss.key \in PersistedKeys

\* C27: when a write of the ledger is rejected, a warning is shown.
C27_WriteFailureIsWarned ==
    [][SettleWrite("rejected") => warnings' # warnings]_vars

(***************************************************************************)
(* GitWatcher (SpecWatch)                                                  *)
(***************************************************************************)
\* the checkForNewCommit calls of the bag b that run handleNewCommit, and
\* those whose processChanges call is generating a review
Handling(b) == {poll \in BagToSet(b) : poll.pc # "rev-parse"}
Generating(b) == {poll \in BagToSet(b) : poll.pc = "review"}

\* C29: a handleNewCommit call makes one Agent.processChanges call, when
\* getChangedFiles has returned, with the list getChangedFiles returned
\* and the two hashes handleNewCommit was called with; no other step of
\* the watcher calls the Agent.
C29_ForwardsChangedFilesOnce ==
    [][/\ \A poll \in BagToSet(polls) : \A output \in DiffOutputs :
             DiffDone(poll, output)
               => /\ agentCalls' =
                       <<[files |-> getChangedFiles(output),
                          oldHash |-> poll.oldHash,
                          newHash |-> poll.newHash]>>
                  /\ CopiesIn(poll, polls') = CopiesIn(poll, polls) - 1
       /\ agentCalls' # NoCalls
             => \E poll \in BagToSet(polls) :
                   /\ poll.pc = "diff"
                   /\ CopiesIn(poll, polls') = CopiesIn(poll, polls) - 1
      ]_vars

\* C29 witness: the watcher saw HEAD go from the first hash to the second
\* and called the Agent once, with both changed files and these hashes
C29_Witness ==
    agentCalls =
       <<[files |-> <<FileA, FileB>>, oldHash |-> HashOf(1),
          newHash |-> HashOf(2)]>>

\* C30: when git diff --name-only fails for a detected commit, the Agent
\* is not called for it (and so no review is written for it).
C30_GitFailureMakesNoReview ==
    [][\A poll \in BagToSet(polls) :
          DiffDone(poll, DiffFailed)
            => /\ agentCalls' = NoCalls
               /\ UNCHANGED reviewInProgress
      ]_vars

\* C32: once dispose() has returned no polling interval is set, then or
\* later, and the watcher makes no Agent.processChanges call.
C32_DisposeStopsTheWatcher ==
    [][disposed => (~polling' /\ agentCalls' = NoCalls)]_vars

C35_OneReviewInFlight ==
    [][/\ Cardinality(Generating(polls')) <= 1
       /\ \A poll \in Generating(polls') : CopiesIn(poll, polls') = 1
       /\ \A poll \in BagToSet(polls) : \A output \in DiffOutputs :
             (Generating(polls) # {} /\ DiffDone(poll, output))
               => /\ polls' = Returned(poll)
                  /\ UNCHANGED <<reviewFile, reviewInProgress, extensionVars>>
      ]_vars

\* C35 witness: a call has just been made and skipped: the call that is
\* generating has written nothing yet, and the skipped one has returned to
\* checkForNewCommit, which recorded the second hash
C35_Witness ==
    /\ agentCalls # NoCalls
    /\ Generating(polls) # {}
    /\ BagCardinality(polls) = 1
    /\ reviewFile = NoReviewFile
    /\ lastHeadHash = HashOf(2)

\* C36: the flag is set exactly while a call is generating a review: it is
\* cleared when the generation ends, with the review of the model, with the
\* stub, or after the callback threw, and a later call is not skipped.
C36_FlagIsNeverStuck ==
    reviewInProgress <=> Generating(polls) # {}

\* C36 witness: a model review was ingested, a later one made the callback
\* throw (the decoration store is empty, the diagnostics store is not),
\* and the flag is clear
C36_Witness ==
    /\ ~reviewInProgress
    /\ StoredIssues(decIssuesByFile) = {}
    /\ StoredIssues(diagIssuesByFile) # {}

\* C37: no change of HEAD is being handled twice: the handleNewCommit calls
\* under way have pairwise different commit ranges.
C37_ChangeHandledOnce ==
    /\ \A poll \in Handling(polls) : CopiesIn(poll, polls) = 1
    /\ \A one \in Handling(polls) : \A other \in Handling(polls) :
          one # other
            => <<one.oldHash, one.newHash>> # <<other.oldHash, other.newHash>>

(***************************************************************************)
(* GitWatcher, fair runs (SpecWatchLive)                                   *)
(***************************************************************************)
\* C31: every change of HEAD that a poll has detected leads to a review in
\* review.md whose commit range ends at the new HEAD.
C31_EveryChangeIsReviewed ==
    \A n \in 2..(MaxLiveCommits + 1) :
       (\E poll \in BagToSet(polls) :
           poll.pc = "diff" /\ poll.newHash = HashOf(n))
         ~> RangeEndsAt(reviewFile, HashOf(n))

(***************************************************************************)
(* CopilotExtensionProvider (SpecProvider)                                 *)
(***************************************************************************)
Generated == copilot.result # NotGenerated

\* the strings the functions of the API answer with, in the order tried,
\* for an extension that activates
Answers ==
    IF copilot.ext = "active"
      THEN SelectSeq([i \in 1..Len(ApiOrder) |-> Answer(copilot.api, i)],
                     IsString)
      ELSE <<>>
NonEmpty(answer) == answer # <<>>
NonBlank(answer) == Len(Trim(answer)) > 0

StartsWith(text, prefix) ==
    Len(text) >= Len(prefix) /\ SubSeq(text, 1, Len(prefix)) = prefix

\* C34 as claimed: generateReview returns a non-empty string: the first
\* non-empty string an API function answered with, in the order tried, and
\* otherwise a text that starts with the fallback title.
C34_FirstNonEmptyAnswerOrFallback ==
    Generated
      => /\ copilot.result # <<>>
         /\ IF SelectSeq(Answers, NonEmpty) # <<>>
              THEN copilot.result = Head(SelectSeq(Answers, NonEmpty))
              ELSE StartsWith(copilot.result, FallbackTitle)

\* C34 amended: generateReview returns a string that is not blank: the
\* first answer of an API function, in the order tried, that is a string
\* with text left after trimming, and otherwise (no extension, activation
\* failing, no function, functions throwing or answering with no string,
\* with "" or with white space only) a text that starts with the fallback
\* title.
C34_FirstNonBlankAnswerOrFallback ==
    Generated
      => /\ NonBlank(copilot.result)
         /\ IF SelectSeq(Answers, NonBlank) # <<>>
              THEN copilot.result = Head(SelectSeq(Answers, NonBlank))
              ELSE StartsWith(copilot.result, FallbackTitle)

\* C34 witness: the first function answers with white space, the second
\* throws, and the review of the third is returned although the fourth
\* has one too
C34_Witness ==
    /\ Generated
    /\ copilot.api[1] = <<" ">>
    /\ copilot.api[2] = Throws
    /\ copilot.api[3] = ReturnsReview
    /\ copilot.api[4] = ReturnsReview
    /\ copilot.result = ReviewOf(3)

(***************************************************************************)
(* StatusBarManager (SpecStatusBar)                                        *)
(***************************************************************************)
\* C39: while the item shows a completion with issues it stays visible:
\* only clear() hides it, no timer does.
C39_IssuesStayVisible ==
    [][(/\ statusBar.visible
        /\ statusBar.text.kind = "complete"
        /\ statusBar.text.n > 0)
         => (statusBar'.visible \/ ClearStatus)]_vars

(***************************************************************************)
(* Review ingestion (SpecIngest)                                           *)
(***************************************************************************)
\* an issue is well-formed when it has a filename and an id
IsWellFormed(issue) == issue.filename # NoFilename /\ issue.id # NoId

WellFormed(review) == SelectSeq(review, IsWellFormed)

\* the reviews the callback is handed: parsed ones, as they are or stamped
\* by the Agent
HandedReviews ==
    IngestReviews
      \cup {StampReviewCommit(review, CommitOne) : review \in IngestReviews}

\* an issue as the store should hold it after the ingestion of commit
Backfilled(issue, commit) ==
    IF issue.reviewCommit = NoCommit
      THEN [issue EXCEPT !.reviewCommit = commit] ELSE issue

\* the index of one whole review: all its issues that name a file, or all
\* its well-formed issues
WholeResults(review, commit) ==
    {IndexByFile([i \in 1..Len(r) |-> Backfilled(r[i], commit)]) :
        r \in {review, WellFormed(review)}}

\* C21: after every run of the review callback, also one that an issue's
\* error ends part-way, each surface's store holds one whole review: the
\* one it held before or the one handed in.
C21_IngestionIsAtomic ==
    [][\A review \in HandedReviews :
          ReviewCompleted(review, CommitOne)
            => /\ decIssuesByFile'
                    \in {decIssuesByFile} \cup WholeResults(review, CommitOne)
               /\ diagIssuesByFile'
                    \in {diagIssuesByFile} \cup WholeResults(review, CommitOne)
      ]_vars

\* C22: after the review callback every well-formed issue of the review is
\* in both stores and, unless dismissed, has its diagnostic, and no
\* malformed issue (no filename, or no id) is in either store.
C22_MalformedIssueIsSkipped ==
    [][\A review \in HandedReviews :
          ReviewCompleted(review, CommitOne)
            => LET kept == WellFormed(review)
                   wellFormed ==
                     {Backfilled(kept[i], CommitOne) : i \in 1..Len(kept)}
               IN  /\ StoredIssues(decIssuesByFile') = wellFormed
                   /\ StoredIssues(diagIssuesByFile') = wellFormed
                   /\ {issue \in wellFormed :
                          ~diagIsIssueDismissed(issue, diagDismissedIssues)}
                        \subseteq DiagnosticsShown'
      ]_vars

\* severity high, then medium, then low
SeverityRank(severity) ==
    IF severity = "high" THEN 1 ELSE IF severity = "medium" THEN 2 ELSE 3

\* (severity high to low, id ascending)
InContractOrder(first, second) ==
    \/ SeverityRank(first.severity) < SeverityRank(second.severity)
    \/ /\ first.severity = second.severity
       /\ first.id < second.id

\* C23: the issues each store holds for a file are ordered by severity
\* (high, medium, low) and by ascending id within a severity, and the
\* diagnostics of a file follow that order.
C23_IssuesForIsOrdered ==
    \A fp \in FsPaths :
        /\ \A index \in {decIssuesByFile, diagIssuesByFile} :
              \A i \in 1..Len(index[fp]), j \in 1..Len(index[fp]) :
                  (i < j /\ IsWellFormed(index[fp][i])
                         /\ IsWellFormed(index[fp][j]))
                    => InContractOrder(index[fp][i], index[fp][j])
        /\ \A i \in 1..Len(diagnosticCollection[fp]),
              j \in 1..Len(diagnosticCollection[fp]) :
                  (i < j /\ IsWellFormed(diagnosticCollection[fp][i].issue)
                         /\ IsWellFormed(diagnosticCollection[fp][j].issue))
                    => InContractOrder(diagnosticCollection[fp][i].issue,
                                       diagnosticCollection[fp][j].issue)

\* the handed reviews after whose ingestion the decoration manager's store
\* holds the issues with the ids in ids (a review that leaves other ids
\* there is not the one a step ingested)
HandedReviewsStoring ==
    [ids \in {IdsOf(IndexedBeforeThrow(review)) : review \in HandedReviews}
       |-> {review \in HandedReviews :
              IdsOf(IndexedBeforeThrow(review)) = ids}]

\* C25: after the review callback every issue in either store has a
\* reviewCommit; an issue of the decoration manager's store is an issue of
\* the review handed in, with the review's revision when it came without
\* one and with its own revision otherwise.
C25_ReviewCommitIsBackfilled ==
    [][\A review \in (IF storedIds' \in DOMAIN HandedReviewsStoring
                         THEN HandedReviewsStoring[storedIds'] ELSE {}) :
          ReviewCompleted(review, CommitOne)
            => /\ \A stored \in StoredIssues(decIssuesByFile') :
                     \E i \in 1..Len(review) :
                        /\ [stored EXCEPT !.reviewCommit =
                                             review[i].reviewCommit]
                             = review[i]
                        /\ stored.reviewCommit =
                             IF review[i].reviewCommit = NoCommit
                               THEN CommitOne ELSE review[i].reviewCommit
               /\ \A stored \in StoredIssues(decIssuesByFile')
                                \cup StoredIssues(diagIssuesByFile') :
                     stored.reviewCommit # NoCommit
      ]_vars

\* C25 witness: both stores hold an issue that came without a revision and
\* has the reviewed one, and an issue that kept the revision it named
C25_Witness ==
    \A index \in {decIssuesByFile, diagIssuesByFile} :
        /\ [IssueA1Retitled EXCEPT !.reviewCommit = CommitOne]
             \in StoredIssues(index)
        /\ IssueA2 \in StoredIssues(index)

====
